---- MODULE Spec2Model ----
(***************************************************************************)
(* Model of the review platform's server side: the reviews table, the      *)
(* public feed (GET /api/reviews), the submission handlers                  *)
(* (POST /api/reviews, two generations) and the moderation endpoints        *)
(* (/api/moderation, /api/moderate, /api/admin/list-pending,                *)
(* /api/moderate/review).  Every handler is one atomic action: the          *)
(* requests are handled one at a time.  The pages in the browser follow:    *)
(* the moderation console, the review lists, the cascading selector and     *)
(* the ranked filter of its pickers.                                        *)
(***************************************************************************)
EXTENDS Integers, Sequences, FiniteSets, TLC

VARIABLES
  env,            \* process.env of the deployment (fixed after Init)
  reviews,        \* the "reviews" table: id -> row
  nextId,         \* next primary key the table hands out
  submission_log, \* the "submission_log" table: sequence of [ip_hash, inserted_at]
  ipHits,         \* the in-memory Map of hit(): ip -> [n, reset]
  now,            \* Date.now(), in milliseconds
  emails,         \* number of moderation e-mails handed to Resend
  accepted,       \* history: the submissions answered 200 with a stored review
  submitted,      \* history: number of submission requests handled so far
  last,           \* the last request handled and its response
  mailHits,       \* the in-memory Map of hitLimit() in pages/api/review.ts: ip -> [count, resetAt]
  page,           \* the moderation console: React state [reviews, loading, error]
  acts,           \* the calls of act() of the console, in the order issued, with their outcome
  hook,           \* a review list in a page: [variant, estateId, items, loading, error]
  fetches,        \* the fetches its effect started, in the order issued
  selector,       \* the cascading selector: [variant, data, county, town, estate, listedFor, event]
  combo,          \* the list of one Combobox: [items, query, filtered]
  nav,            \* the navigation of a selector: [variant, county, town, estate, path]
  index,          \* a Place Index being loaded: [loader, source, data, loaded, merges]
  inflight        \* the submissions the server is handling at once: [pc, req, ipHash, since, count, code] of each

vars == <<env, reviews, nextId, submission_log, ipHits, now, emails, accepted, submitted, last,
          mailHits, page, acts, hook, fetches, selector, combo,
          nav,
          index,
          inflight>>

\* the state of the server
serverVars == <<env, reviews, nextId, submission_log, ipHits, now, emails, accepted, submitted, last,
                mailHits>>

\* the state of the pages in the browser: the console, the review lists,
\* the cascading selector
consoleVars == <<page, acts>>
hookVars == <<hook, fetches>>
selectorVars == <<selector>>
comboVars == <<combo>>
navVars == <<nav>>
indexVars == <<index>>
flightVars == <<inflight>>
clientVars == <<consoleVars, hookVars, selectorVars, comboVars, navVars, indexVars, flightVars>>

\* what the console leaves alone, what a review list leaves alone, what the
\* cascading selector leaves alone, and what the list of a Combobox leaves alone
notConsole == <<serverVars, hookVars, selectorVars, comboVars, navVars, indexVars, flightVars>>
notHooks == <<serverVars, consoleVars, selectorVars, comboVars, navVars, indexVars, flightVars>>
notSelector == <<serverVars, consoleVars, hookVars, comboVars, navVars, indexVars, flightVars>>
notCombo == <<serverVars, consoleVars, hookVars, selectorVars, navVars, indexVars, flightVars>>
notNav == <<serverVars, consoleVars, hookVars, selectorVars, comboVars, indexVars, flightVars>>
notIndex == <<serverVars, consoleVars, hookVars, selectorVars, comboVars, navVars, flightVars>>
notFlight == <<serverVars, consoleVars, hookVars, selectorVars, comboVars, navVars, indexVars>>

\* what the handlers of /api/reviews and of the moderation endpoints, and the
\* clock, never touch
otherVars == <<mailHits, clientVars>>

(***************************************************************************)
(* Bounds of the model.                                                    *)
(***************************************************************************)
InitReviews == 2   \* rows in the table when the moderation runs start

(***************************************************************************)
(* Values.                                                                 *)
(***************************************************************************)
Secret == "s3cret"     \* the value a configured secret has
Wrong  == "guess"      \* a credential that is not the secret
Unset  == "<unset>"    \* process.env.X of a variable that is not set (undefined)

Statuses == {"pending", "approved", "rejected"}

PlaceA == [county |-> "Kildare", region |-> "Celbridge", estate |-> "The Grove"]
PlaceB == [county |-> "Kildare", region |-> "Leixlip",   estate |-> "All Areas"]

\* The place of the rows the table holds at the start: odd ids PlaceA, even PlaceB.
PlaceOf(i) == IF i % 2 = 1 THEN PlaceA ELSE PlaceB

Ids(tbl) == DOMAIN tbl

\* JavaScript truthiness of a string, and `a || b` on strings.
Truthy(s) == s # "" /\ s # Unset
OrElse(a, b) == IF Truthy(a) THEN a ELSE b

(***************************************************************************)
(* The table operations the handlers use (PostgREST through supabase-js).  *)
(***************************************************************************)
\* the rows of tbl a query's filters match (matching: their ids), as a set of rows
Select(tbl, matching) == {tbl[i] : i \in matching}

RECURSIVE OrderDesc(_)
\* .order("created_at", { ascending: false })
OrderDesc(S) ==
  IF S = {} THEN <<>>
  ELSE LET top == CHOOSE r \in S : \A q \in S : q.created_at <= r.created_at
       IN  <<top>> \o OrderDesc(S \ {top})

\* .limit(n)
Limit(sq, n) == IF Len(sq) <= n THEN sq ELSE SubSeq(sq, 1, n)

\* an update that only reaches rows still awaiting a decision
UpdateStatusPendingOnly(tbl, id, newStatus) ==
  [i \in Ids(tbl) |-> IF tbl[i].id = id /\ tbl[i].status = "pending"
                        THEN [tbl[i] EXCEPT !.status = newStatus] ELSE tbl[i]]

\* .update({ status }).eq("id", id): every row whose id matches, no other
UpdateStatus(tbl, id, newStatus) ==
  [i \in Ids(tbl) |-> IF tbl[i].id = id THEN [tbl[i] EXCEPT !.status = newStatus] ELSE tbl[i]]

\* .delete().eq("id", id): the row is removed from the table
DeleteRow(tbl, id) == [i \in Ids(tbl) \ {id} |-> tbl[i]]


(***************************************************************************)
(* Responses.  `rows` is what the table returned to the handler, `reads`   *)
(* and `writes` count the queries the handler ran against the reviews      *)
(* table while serving the request.                                        *)
(***************************************************************************)
Resp(handler, req, code, body, rows, reads, writes) ==
  [handler |-> handler, req |-> req, code |-> code, body |-> body,
   rows |-> rows, reads |-> reads, writes |-> writes]

NoRows == <<>>

\* String.prototype.toLowerCase on the status names a client sends
Lower(s) == CASE s = "Approved" -> "approved" [] s = "PENDING" -> "pending" [] OTHER -> s

(***************************************************************************)
(* GET /api/reviews: handleGet.                                            *)
(***************************************************************************)
FeedLimit == 500

\* const { status = "approved", county = "", region = "", estate = "" } = req.query
QueryStatus(q) == IF q.status = Unset THEN "approved" ELSE q.status

\* .eq("status", status).is("deleted_at", null) and the optional .eq filters
FeedFilter(q, r) ==
  /\ r.status = QueryStatus(q)
  /\ ~r.deleted
  /\ (q.county # "" => r.county = q.county)
  /\ (q.region # "" => r.region = q.region)
  /\ (q.estate # "" => r.estate = q.estate)

\* the lean shape the handler maps each row to
Lean(r) == [id |-> r.id, createdAt |-> r.created_at, rating |-> r.rating, title |-> r.title]

FeedRows(tbl, q) ==
  Limit(OrderDesc(Select(tbl, {i \in Ids(tbl) : FeedFilter(q, tbl[i])})), FeedLimit)

handleGet(q, dbOk) ==
  /\ UNCHANGED <<env, reviews, nextId, submission_log, ipHits, now, emails, accepted, submitted>>
  /\ last' =
       IF ~env.storage
         THEN Resp("reviews.GET", q, 500, [error |-> "Storage not configured"], NoRows, 0, 0)
       ELSE IF ~dbOk
         THEN Resp("reviews.GET", q, 500, [error |-> "db"], NoRows, 1, 0)
       ELSE LET data == FeedRows(reviews, q)
            IN  Resp("reviews.GET", q, 200,
                     [reviews |-> [k \in 1..Len(data) |-> Lean(data[k])]], data, 1, 0)

(***************************************************************************)
(* /api/moderation (pages/api/moderation.ts).                              *)
(***************************************************************************)
ModerationLimit == 200

MOD_TOKEN == OrElse(env.MODERATOR_TOKEN, "")

\* auth.startsWith("Bearer ") ? auth.slice(7) : req.headers["x-mod-token"]
BearerToken(req) ==
  IF req.authorization.scheme = "Bearer" THEN req.authorization.value ELSE req.xModToken

\* the guard `!token || token !== MOD_TOKEN` negated
ModerationAuthorized(req) ==
  /\ Truthy(BearerToken(req))
  /\ BearerToken(req) = MOD_TOKEN

NewStatus(action) == IF action = "approve" THEN "approved" ELSE "rejected"

StatusRows(tbl, status, n) ==
  Limit(OrderDesc(Select(tbl, {i \in Ids(tbl) : tbl[i].status = status})), n)

moderation(req, dbOk) ==
  /\ UNCHANGED <<env, nextId, submission_log, ipHits, now, emails, accepted, submitted>>
  /\ IF ~env.storage THEN
       /\ reviews' = reviews
       /\ last' = Resp("moderation", req, 500, [ok |-> FALSE, error |-> "Supabase server key missing"], NoRows, 0, 0)
     ELSE IF ~ModerationAuthorized(req) THEN
       /\ reviews' = reviews
       /\ last' = Resp("moderation", req, 401, [ok |-> FALSE, error |-> "Unauthorized"], NoRows, 0, 0)
     ELSE IF req.method = "GET" THEN
       LET status == Lower(OrElse(req.status, "pending"))
           filter == IF status \in {"pending", "approved", "rejected"} THEN status ELSE "pending"
           data   == StatusRows(reviews, filter, ModerationLimit)
       IN  /\ reviews' = reviews
           /\ last' = IF dbOk
                        THEN Resp("moderation", req, 200, [ok |-> TRUE, reviews |-> data], data, 1, 0)
                        ELSE Resp("moderation", req, 500, [ok |-> FALSE, error |-> "db"], NoRows, 1, 0)
     ELSE IF req.method = "POST" THEN
       IF req.id = 0 \/ req.action \notin {"approve", "reject", "delete"} THEN
         /\ reviews' = reviews
         /\ last' = Resp("moderation", req, 400, [ok |-> FALSE, error |-> "Bad payload"], NoRows, 0, 0)
       ELSE IF ~dbOk THEN
         /\ reviews' = reviews
         /\ last' = Resp("moderation", req, 500, [ok |-> FALSE, error |-> "db"], NoRows, 0, 1)
       ELSE IF req.action = "delete" THEN
         /\ reviews' = DeleteRow(reviews, req.id)
         /\ last' = Resp("moderation", req, 200, [ok |-> TRUE, status |-> "deleted"], NoRows, 0, 1)
       ELSE
         /\ reviews' = UpdateStatus(reviews, req.id, NewStatus(req.action))
         /\ last' = Resp("moderation", req, 200, [ok |-> TRUE, status |-> NewStatus(req.action)], NoRows, 0, 1)
     ELSE
       /\ reviews' = reviews
       /\ last' = Resp("moderation", req, 405, [ok |-> FALSE, error |-> "Method not allowed"], NoRows, 0, 0)

(***************************************************************************)
(* /api/moderation, earlier generation (unnamed/part_010): approve and     *)
(* reject only, the status filter of GET taken as sent.                    *)
(***************************************************************************)
moderationV1(req, dbOk) ==
  /\ UNCHANGED <<env, nextId, submission_log, ipHits, now, emails, accepted, submitted>>
  /\ IF ~env.storage THEN
       /\ reviews' = reviews
       /\ last' = Resp("moderationV1", req, 500, [ok |-> FALSE, error |-> "Supabase server key missing"], NoRows, 0, 0)
     ELSE IF ~ModerationAuthorized(req) THEN
       /\ reviews' = reviews
       /\ last' = Resp("moderationV1", req, 401, [ok |-> FALSE, error |-> "Unauthorized"], NoRows, 0, 0)
     ELSE IF req.method = "GET" THEN
       LET data == StatusRows(reviews, OrElse(req.status, "pending"), ModerationLimit)
       IN  /\ reviews' = reviews
           /\ last' = IF dbOk
                        THEN Resp("moderationV1", req, 200, [ok |-> TRUE, reviews |-> data], data, 1, 0)
                        ELSE Resp("moderationV1", req, 500, [ok |-> FALSE, error |-> "db"], NoRows, 1, 0)
     ELSE IF req.method = "POST" THEN
       IF req.id = 0 \/ req.action \notin {"approve", "reject"} THEN
         /\ reviews' = reviews
         /\ last' = Resp("moderationV1", req, 400, [ok |-> FALSE, error |-> "Bad payload"], NoRows, 0, 0)
       ELSE IF ~dbOk THEN
         /\ reviews' = reviews
         /\ last' = Resp("moderationV1", req, 500, [ok |-> FALSE, error |-> "db"], NoRows, 0, 1)
       ELSE
         /\ reviews' = UpdateStatus(reviews, req.id, NewStatus(req.action))
         /\ last' = Resp("moderationV1", req, 200, [ok |-> TRUE, status |-> NewStatus(req.action)], NoRows, 0, 1)
     ELSE
       /\ reviews' = reviews
       /\ last' = Resp("moderationV1", req, 405, [ok |-> FALSE, error |-> "Method not allowed"], NoRows, 0, 0)

(***************************************************************************)
(* /api/moderate (pages/api/moderate.ts in unnamed/part_013).              *)
(***************************************************************************)
ADMIN_PASSWORD == OrElse(env.ADMIN_PASSWORD, "")

\* if (ADMIN_PASSWORD) { if (header !== ADMIN_PASSWORD) return 401 }
ModeratePassed(req) == Truthy(ADMIN_PASSWORD) => req.xAdminPass = ADMIN_PASSWORD

\* .eq("status", "pending").order("created_at", { ascending: true })
RECURSIVE Reverse(_)
Reverse(sq) == IF sq = <<>> THEN <<>> ELSE Reverse(Tail(sq)) \o <<Head(sq)>>

PendingAscending(tbl) ==
  Reverse(OrderDesc(Select(tbl, {i \in Ids(tbl) : tbl[i].status = "pending"})))

moderate(req, dbOk) ==
  /\ UNCHANGED <<env, nextId, submission_log, ipHits, now, emails, accepted, submitted>>
  /\ IF ~ModeratePassed(req) THEN
       /\ reviews' = reviews
       /\ last' = Resp("moderate", req, 401, [error |-> "Unauthorized"], NoRows, 0, 0)
     ELSE IF req.method = "GET" THEN
       LET data == PendingAscending(reviews)
       IN  /\ reviews' = reviews
           /\ last' = IF dbOk
                        THEN Resp("moderate", req, 200, [reviews |-> data], data, 1, 0)
                        ELSE Resp("moderate", req, 500, [error |-> "Failed to fetch pending reviews."], NoRows, 1, 0)
     ELSE IF req.method = "POST" THEN
       IF req.id = 0 \/ req.action \notin {"approve", "reject"} THEN
         /\ reviews' = reviews
         /\ last' = Resp("moderate", req, 400, [error |-> "Invalid request"], NoRows, 0, 0)
       ELSE IF ~dbOk THEN
         /\ reviews' = reviews
         /\ last' = Resp("moderate", req, 500, [error |-> "Failed to update review."], NoRows, 0, 1)
       ELSE
         /\ reviews' = UpdateStatus(reviews, req.id, NewStatus(req.action))
         /\ last' = Resp("moderate", req, 200, [ok |-> TRUE], NoRows, 0, 1)
     ELSE
       /\ reviews' = reviews
       /\ last' = Resp("moderate", req, 405, [error |-> "Method Not Allowed"], NoRows, 0, 0)

(***************************************************************************)
(* The token-gated admin endpoints: requireAdminToken (unnamed/part_000),  *)
(* /api/admin/list-pending and /api/moderate/review (unnamed/part_012).    *)
(***************************************************************************)
AdminListLimit == 100

\* const token = (Array.isArray(header) ? header[0] : header) || qs
AdminToken(req) == OrElse(req.xAdminToken, req.qsToken)

\* the guard `!token || token !== process.env.ADMIN_DASH_TOKEN` negated
requireAdminToken(req) ==
  /\ Truthy(AdminToken(req))
  /\ AdminToken(req) = env.ADMIN_DASH_TOKEN

\* r1.data ?? []: a failed query is answered as an empty queue
listPending(req, dbOk) ==
  /\ UNCHANGED <<env, reviews, nextId, submission_log, ipHits, now, emails, accepted, submitted>>
  /\ IF ~requireAdminToken(req)
       THEN last' = Resp("list-pending", req, 401, [ok |-> FALSE, error |-> "unauthorized"], NoRows, 0, 0)
       ELSE LET data == IF dbOk THEN StatusRows(reviews, "pending", AdminListLimit) ELSE NoRows
            IN  last' = Resp("list-pending", req, 200, [reviews |-> data], data, 1, 0)

\* const status = action === "approve" ? "approved" : "declined"
ReviewDecision(action) == IF action = "approve" THEN "approved" ELSE "declined"

moderateReview(req, dbOk) ==
  /\ UNCHANGED <<env, nextId, submission_log, ipHits, now, emails, accepted, submitted>>
  /\ IF ~requireAdminToken(req) THEN
       /\ reviews' = reviews
       /\ last' = Resp("moderate/review", req, 401, [ok |-> FALSE, error |-> "unauthorized"], NoRows, 0, 0)
     ELSE IF req.method # "POST" THEN
       /\ reviews' = reviews
       /\ last' = Resp("moderate/review", req, 405, [ok |-> FALSE], NoRows, 0, 0)
     ELSE IF req.id = 0 \/ req.action \notin {"approve", "decline"} THEN
       /\ reviews' = reviews
       /\ last' = Resp("moderate/review", req, 400, [ok |-> FALSE, error |-> "bad_request"], NoRows, 0, 0)
     ELSE IF ~dbOk THEN
       /\ reviews' = reviews
       /\ last' = Resp("moderate/review", req, 200, [ok |-> FALSE, error |-> "db"], NoRows, 0, 1)
     ELSE
       /\ reviews' = UpdateStatus(reviews, req.id, ReviewDecision(req.action))
       /\ last' = Resp("moderate/review", req, 200, [ok |-> TRUE], NoRows, 0, 1)

(***************************************************************************)
(* Numbers as JavaScript has them: a value in tenths, or NaN.              *)
(***************************************************************************)
Num(t) == [nan |-> FALSE, tenths |-> t]
NaN    == [nan |-> TRUE,  tenths |-> 0]

(***************************************************************************)
(* The requests of the moderation runs.                                    *)
(***************************************************************************)
NoAuth == [scheme |-> "", value |-> ""]
Bearer(v) == [scheme |-> "Bearer", value |-> v]

ModReq(method, cred, status, body) ==
  [method |-> method,
   authorization |-> cred.authorization, xModToken |-> cred.xModToken,
   xAdminPass |-> cred.xAdminPass, xAdminToken |-> cred.xAdminToken, qsToken |-> cred.qsToken,
   status |-> status, id |-> body.id, ids |-> body.ids, action |-> body.action]

NoCred ==
  [authorization |-> NoAuth, xModToken |-> Unset, xAdminPass |-> Unset,
   xAdminToken |-> Unset, qsToken |-> Unset]

\* credentials a client of /api/moderation presents
BearerCreds ==
  { NoCred,
    [NoCred EXCEPT !.authorization = Bearer(Secret)],
    [NoCred EXCEPT !.authorization = Bearer(Wrong)],
    [NoCred EXCEPT !.xModToken = Secret] }

\* credentials a client of /api/moderate presents
PassCreds ==
  { NoCred, [NoCred EXCEPT !.xAdminPass = Secret], [NoCred EXCEPT !.xAdminPass = Wrong] }

\* credentials a client of the token-gated admin endpoints presents
TokenCreds ==
  { NoCred,
    [NoCred EXCEPT !.xAdminToken = Secret],
    [NoCred EXCEPT !.xAdminToken = Wrong],
    [NoCred EXCEPT !.qsToken = Secret] }

NoBody == [id |-> 0, ids |-> {}, action |-> Unset]

\* ids a request names: the rows of the table and one id that is no row
RequestIds == 1..(InitReviews + 1)

\* POST bodies: { id, action }, and the bulk form { ids, action }
Bodies(actions) ==
  {[id |-> i, ids |-> {}, action |-> a] : i \in {0} \cup RequestIds, a \in actions}
  \cup {[id |-> 0, ids |-> S, action |-> a] : S \in {RequestIds, 1..InitReviews}, a \in actions}

ModActions == {"approve", "reject", "delete", "restore"}

\* every request a client holding credential c can send to a moderation endpoint
ModRequests(creds, statuses, actions) ==
  {ModReq("GET", c, st, NoBody) : c \in creds, st \in statuses}
  \cup {ModReq("POST", c, Unset, b) : c \in creds, b \in Bodies(actions)}
  \cup {ModReq("PUT", c, Unset, NoBody) : c \in creds}

\* one list request and two action requests per credential
ProbeRequests(creds) ==
  {ModReq("GET", c, Unset, NoBody) : c \in creds}
  \cup {ModReq("POST", c, Unset, [id |-> 1, ids |-> {}, action |-> a]) :
          c \in creds, a \in {"approve", "delete"}}

\* query strings of GET /api/reviews
FeedQueries ==
  {[status |-> st, county |-> pl.county, region |-> pl.region, estate |-> pl.estate] :
     st \in {Unset, "pending", "rejected"},
     pl \in {PlaceA, PlaceB, [county |-> "", region |-> "", estate |-> ""]}}

(***************************************************************************)
(* The moderation runs: a table that already holds rows in any status,     *)
(* soft-deleted or not, in a deployment whose moderator secret is set.     *)
(* The moderator holds the secret; one client holds none.                  *)
(***************************************************************************)
Row(i, status, deleted) ==
  [id |-> i, status |-> status, deleted |-> deleted,
   county |-> PlaceOf(i).county, region |-> PlaceOf(i).region, estate |-> PlaceOf(i).estate,
   rating |-> Num(40), title |-> 5, created_at |-> i - (InitReviews + 1)]

NoLast == Resp("none", NoBody, 0, [ok |-> TRUE], NoRows, 0, 0)

Deployment(secret) ==
  [storage |-> TRUE,
   MODERATOR_TOKEN |-> secret, ADMIN_PASSWORD |-> secret, ADMIN_DASH_TOKEN |-> secret,
   RATE_LIMIT_SECRET |-> Unset, RATE_LIMIT_PER_HOUR |-> 5,
   HCAPTCHA |-> FALSE, RESEND |-> FALSE]

\* a server that has handled no request
ServerIdle ==
  /\ nextId = InitReviews + 1
  /\ submission_log = <<>>
  /\ ipHits = <<>>
  /\ now = 0
  /\ emails = 0
  /\ accepted = <<>>
  /\ submitted = 0
  /\ last = NoLast
  /\ mailHits = <<>>

\* the console as mounted: useState([]), useState(false), useState(null)
ConsoleIdle ==
  /\ page = [reviews |-> <<>>, loading |-> FALSE, error |-> Unset]
  /\ acts = <<>>

\* items of no fetch (useState([])) and the error of no fetch (useState(null))
NoItems == [of |-> 0, estate |-> Unset]
NoError == [of |-> 0]

\* no review list mounted
HooksIdle ==
  /\ hook = [variant |-> "none", estateId |-> Unset, items |-> NoItems,
             loading |-> FALSE, error |-> NoError]
  /\ fetches = <<>>

\* no cascading selector mounted
NoEvent == [kind |-> "mount", picker |-> Unset]

SelectorIdle ==
  selector = [variant |-> "none", data |-> {}, county |-> Unset, town |-> Unset,
              estate |-> Unset, listedFor |-> Unset, event |-> NoEvent]

\* no Combobox mounted
ComboIdle == combo = [items |-> <<>>, query |-> <<>>, filtered |-> <<>>]

\* no navigation asked for
NavIdle ==
  nav = [variant |-> "none", county |-> <<>>, town |-> <<>>, estate |-> <<>>, path |-> Unset]

\* no Place Index being loaded
IndexIdle ==
  index = [loader |-> "none", source |-> [header |-> <<>>, lines |-> <<>>], data |-> <<>>,
           loaded |-> FALSE, merges |-> 0]

\* no submission is being handled
FlightIdle ==
  inflight = <<>>

InitServer == ServerIdle /\ ConsoleIdle /\ HooksIdle /\ SelectorIdle /\ ComboIdle /\ NavIdle /\ IndexIdle /\ FlightIdle

InitStore ==
  /\ env = Deployment(Secret)
  /\ \E st \in [1..InitReviews -> Statuses], del \in [1..InitReviews -> BOOLEAN] :
       reviews = [i \in 1..InitReviews |-> Row(i, st[i], del[i])]
  /\ InitServer

Moderator == {[NoCred EXCEPT !.authorization = Bearer(Secret)]}

FeedRead ==
  /\ UNCHANGED otherVars
  /\ \E q \in FeedQueries : handleGet(q, TRUE)
Moderation ==
  /\ UNCHANGED otherVars
  /\ \E r \in ModRequests(Moderator, {Unset, "Approved", "rejected", "deleted"}, ModActions)
       \cup ProbeRequests({NoCred}) : moderation(r, TRUE)
ModerationV1 ==
  /\ UNCHANGED otherVars
  /\ \E r \in ModRequests(Moderator, {Unset, "approved"}, {"approve", "reject"}) :
       moderationV1(r, TRUE)
\* the table answers the query with an error
StoreDown ==
  \/ UNCHANGED otherVars /\ \E q \in FeedQueries : q.status = Unset /\ handleGet(q, FALSE)
  \/ UNCHANGED otherVars /\ \E r \in ProbeRequests(Moderator) : moderation(r, FALSE)
  \/ UNCHANGED otherVars /\ \E r \in ProbeRequests(Moderator) : moderationV1(r, FALSE)

NextStore ==
  \/ FeedRead
  \/ Moderation
  \/ ModerationV1
  \/ StoreDown

SpecStore == InitStore /\ [][NextStore]_vars

(***************************************************************************)
(* The authorization runs: every moderation endpoint, clients with and     *)
(* without the secret, deployments whose secret is set, empty or unset.    *)
(***************************************************************************)
InitAuth ==
  /\ \E secret \in {Unset, "", Secret} : env = Deployment(secret)
  /\ reviews = [i \in 1..InitReviews |-> Row(i, "pending", FALSE)]
  /\ InitServer

AuthModeration ==
  /\ UNCHANGED otherVars
  /\ \E r \in ProbeRequests(BearerCreds), dbOk \in BOOLEAN : moderation(r, dbOk)
AuthModerationV1 ==
  /\ UNCHANGED otherVars
  /\ \E r \in ProbeRequests(BearerCreds), dbOk \in BOOLEAN : moderationV1(r, dbOk)
AuthModerate ==
  /\ UNCHANGED otherVars
  /\ \E r \in ProbeRequests(PassCreds), dbOk \in BOOLEAN : moderate(r, dbOk)
AuthListPending ==
  /\ UNCHANGED otherVars
  /\ \E r \in ProbeRequests(TokenCreds), dbOk \in BOOLEAN : listPending(r, dbOk)
AuthReview ==
  /\ UNCHANGED otherVars
  /\ \E r \in ProbeRequests(TokenCreds)
       \cup {ModReq("POST", c, Unset, [id |-> 1, ids |-> {}, action |-> "decline"]) :
       c \in TokenCreds},
       dbOk \in BOOLEAN : moderateReview(r, dbOk)

NextAuth ==
  \/ AuthModeration
  \/ AuthModerationV1
  \/ AuthModerate
  \/ AuthListPending
  \/ AuthReview

SpecAuth == InitAuth /\ [][NextAuth]_vars

(***************************************************************************)
(* POST /api/reviews, the validating generation: handlePost                *)
(* (unnamed/part_005, the same code in unnamed/part_009).                  *)
(* Texts are modelled by their length after trim(), county and region by   *)
(* their value.                                                            *)
(***************************************************************************)
TitleMax == 120
BodyMax == 5000
windowMs == 60000
maxPerWindow == 5

\* String(raw ?? "").trim(), on the values a client sends (" " is blank text)
Trim(raw) == IF raw = Unset \/ raw = " " THEN "" ELSE raw

\* Number(raw.rating ?? 0)
ToNumber(raw) ==
  CASE raw.kind = "absent" -> Num(0)
    [] raw.kind = "number" -> Num(raw.tenths)
    [] OTHER -> NaN

\* a < b on JavaScript numbers, b an integer: false when a is NaN
Less(a, b) == ~a.nan /\ a.tenths < 10 * b
Greater(a, b) == ~a.nan /\ a.tenths > 10 * b

\* a normalisation that never reads the honeypot field
PayloadNoHoneypot(raw) ==
  [county  |-> Trim(raw.county),
   region  |-> Trim(raw.region),
   estate  |-> OrElse(Trim(IF raw.estate = Unset THEN "All Areas" ELSE raw.estate), "All Areas"),
   rating  |-> ToNumber(raw.rating),
   title   |-> raw.title,
   body    |-> raw.body,
   website |-> ""]

\* payload: the fields of req.body, normalised
Payload(raw) ==
  [county  |-> Trim(raw.county),
   region  |-> Trim(raw.region),
   estate  |-> OrElse(Trim(IF raw.estate = Unset THEN "All Areas" ELSE raw.estate), "All Areas"),
   rating  |-> ToNumber(raw.rating),
   title   |-> raw.title,
   body    |-> raw.body,
   website |-> Trim(raw.website)]

If(cond, msg) == IF cond THEN <<msg>> ELSE <<>>

\* a validation that stops at the first failed rule
ValidateFirstOnly(p) ==
  IF p.county = "" THEN <<"county is required">>
  ELSE IF p.region = "" THEN <<"region is required">>
  ELSE IF p.rating.nan \/ Less(p.rating, 1) \/ Greater(p.rating, 5) THEN <<"rating must be 1..5">>
  ELSE IF p.title = 0 THEN <<"title is required">>
  ELSE IF p.body = 0 THEN <<"body is required">>
  ELSE IF p.title > TitleMax THEN <<"title too long">>
  ELSE IF p.body > BodyMax THEN <<"body too long">>
  ELSE <<>>

\* every rule is evaluated and every failure pushed
Validate(p) ==
     If(p.county = "", "county is required")
  \o If(p.region = "", "region is required")
  \o If(p.rating.nan \/ Less(p.rating, 1) \/ Greater(p.rating, 5), "rating must be 1..5")
  \o If(p.title = 0, "title is required")
  \o If(p.body = 0, "body is required")
  \o If(p.title > TitleMax, "title too long")
  \o If(p.body > BodyMax, "body too long")

\* hit(ip): the slot the call leaves in the Map
hitSlot(ip) ==
  IF ip \notin DOMAIN ipHits \/ ipHits[ip].reset < now
    THEN [n |-> 1, reset |-> now + windowMs]
    ELSE [n |-> ipHits[ip].n + 1, reset |-> ipHits[ip].reset]

\* hit(ip): its result, true when the request is over the limit
hit(ip) ==
  IF ip \notin DOMAIN ipHits \/ ipHits[ip].reset < now
    THEN FALSE
    ELSE ipHits[ip].n + 1 > maxPerWindow

Put(map, key, val) == [k \in DOMAIN map \cup {key} |-> IF k = key THEN val ELSE map[k]]

\* the row the table stores for an insert: the table sets id and created_at,
\* deleted_at stays null
Stored(id, ins) ==
  [id |-> id, status |-> ins.status, deleted |-> FALSE,
   county |-> ins.county, region |-> ins.region, estate |-> ins.estate,
   rating |-> ins.rating, title |-> ins.title, created_at |-> now]

Insert(tbl, id, ins) == Put(tbl, id, Stored(id, ins))

Accept(via, ip) == Append(accepted, [via |-> via, ip |-> ip, at |-> now])

\* a handler whose e-mail failure escapes after the insert and fails the request
handlePostEmailFatal(raw, insOk, emailOk) ==
  LET p == Payload(raw)
      errors == Validate(p)
      Answer(code, body, writes) == last' = Resp("reviews.POST", raw, code, body, NoRows, 0, writes)
      Untouched == UNCHANGED <<reviews, nextId, ipHits, emails, accepted>>
  IN
  /\ submitted' = submitted + 1
  /\ UNCHANGED <<env, submission_log, now>>
  /\ IF ~env.storage THEN
       Untouched /\ Answer(500, [error |-> "Storage not configured"], 0)
     ELSE IF raw.contentType # "application/json" THEN
       Untouched /\ Answer(415, [error |-> "Content-Type must be application/json"], 0)
     ELSE IF p.website # "" THEN
       Untouched /\ Answer(200, [ok |-> TRUE, skipped |-> TRUE], 0)
     ELSE IF errors # <<>> THEN
       Untouched /\ Answer(400, [error |-> "Invalid payload", details |-> errors], 0)
     ELSE
       /\ ipHits' = Put(ipHits, raw.ip, hitSlot(raw.ip))
       /\ IF hit(raw.ip) THEN
            /\ UNCHANGED <<reviews, nextId, emails, accepted>>
            /\ Answer(429, [error |-> "Too many requests, slow down."], 0)
          ELSE IF ~insOk THEN
            /\ UNCHANGED <<reviews, nextId, emails, accepted>>
            /\ Answer(500, [error |-> "db"], 1)
          ELSE
            /\ reviews' = Insert(reviews, nextId,
                                 [county |-> p.county, region |-> p.region, estate |-> p.estate,
                                  rating |-> p.rating, title |-> p.title, status |-> "pending"])
            /\ nextId' = nextId + 1
            /\ emails' = IF env.RESEND /\ emailOk THEN emails + 1 ELSE emails
            /\ accepted' = Accept("reviews.POST", raw.ip)
            /\ IF env.RESEND /\ ~emailOk
                 THEN Answer(500, [error |-> "email"], 1)
                 ELSE Answer(200, [ok |-> TRUE, id |-> nextId], 1)

\* insOk: the table takes the insert; emailOk: resend.emails.send() does not throw
handlePost(raw, insOk, emailOk) ==
  LET p == Payload(raw)
      errors == Validate(p)
      Answer(code, body, writes) == last' = Resp("reviews.POST", raw, code, body, NoRows, 0, writes)
      Untouched == UNCHANGED <<reviews, nextId, ipHits, emails, accepted>>
  IN
  /\ submitted' = submitted + 1
  /\ UNCHANGED <<env, submission_log, now>>
  /\ IF ~env.storage THEN
       Untouched /\ Answer(500, [error |-> "Storage not configured"], 0)
     ELSE IF raw.contentType # "application/json" THEN
       Untouched /\ Answer(415, [error |-> "Content-Type must be application/json"], 0)
     ELSE IF p.website # "" THEN
       Untouched /\ Answer(200, [ok |-> TRUE, skipped |-> TRUE], 0)
     ELSE IF errors # <<>> THEN
       Untouched /\ Answer(400, [error |-> "Invalid payload", details |-> errors], 0)
     ELSE
       /\ ipHits' = Put(ipHits, raw.ip, hitSlot(raw.ip))
       /\ IF hit(raw.ip) THEN
            /\ UNCHANGED <<reviews, nextId, emails, accepted>>
            /\ Answer(429, [error |-> "Too many requests, slow down."], 0)
          ELSE IF ~insOk THEN
            /\ UNCHANGED <<reviews, nextId, emails, accepted>>
            /\ Answer(500, [error |-> "db"], 1)
          ELSE
            /\ reviews' = Insert(reviews, nextId,
                                 [county |-> p.county, region |-> p.region, estate |-> p.estate,
                                  rating |-> p.rating, title |-> p.title, status |-> "pending"])
            /\ nextId' = nextId + 1
            /\ emails' = IF env.RESEND /\ emailOk THEN emails + 1 ELSE emails
            /\ accepted' = Accept("reviews.POST", raw.ip)
            /\ Answer(200, [ok |-> TRUE, id |-> nextId], 1)

(***************************************************************************)
(* POST /api/reviews, the rate-limit-log generation: handler of            *)
(* pages/api/reviews.ts.  The request's region field is the body's town.   *)
(***************************************************************************)
HourMs == 3600000

RATE_LIMIT_SECRET == OrElse(env.RATE_LIMIT_SECRET, "")
RATE_LIMIT_PER_HOUR == env.RATE_LIMIT_PER_HOUR

\* the HMAC of the address under the secret, the address itself with no secret
hashIp(ip) ==
  IF RATE_LIMIT_SECRET = "" THEN [plain |-> ip] ELSE [hmac |-> ip, key |-> RATE_LIMIT_SECRET]

\* siteverify answers success for the token "good"; verifyUp is false when
\* the fetch throws
verifyHCaptcha(token, verifyUp) ==
  IF ~env.HCAPTCHA THEN TRUE
  ELSE IF ~Truthy(token) THEN FALSE
  ELSE verifyUp /\ token = "good"

\* count of log rows .eq("ip_hash", ipHash).gte("inserted_at", since)
LogCount(ipHash, since) ==
  Cardinality({k \in 1..Len(submission_log) :
                 submission_log[k].ip_hash = ipHash /\ submission_log[k].inserted_at >= since})

reviewsHandler(raw, countOk, verifyUp, logOk, insOk, emailOk) ==
  LET ipHash == hashIp(raw.ip)
      since == now - HourMs
      Answer(code, body, writes) == last' = Resp("reviews", raw, code, body, NoRows,
                                                 IF RATE_LIMIT_SECRET # "" THEN 1 ELSE 0, writes)
      Untouched == UNCHANGED <<reviews, nextId, submission_log, emails, accepted>>
      logged == IF RATE_LIMIT_SECRET # "" /\ logOk
                  THEN Append(submission_log, [ip_hash |-> ipHash, inserted_at |-> now])
                  ELSE submission_log
  IN
  /\ submitted' = submitted + 1
  /\ UNCHANGED <<env, ipHits, now>>
  /\ IF raw.method # "POST" THEN
       Untouched /\ last' = Resp("reviews", raw, 405, [error |-> "Method not allowed"], NoRows, 0, 0)
     ELSE IF RATE_LIMIT_SECRET # "" /\ ~countOk THEN
       Untouched /\ Answer(500, [error |-> "rate-limit-check-failed"], 0)
     ELSE IF RATE_LIMIT_SECRET # "" /\ LogCount(ipHash, since) >= RATE_LIMIT_PER_HOUR THEN
       Untouched /\ Answer(429, [error |-> "Too many submissions. Please try later."], 0)
     ELSE IF ~verifyHCaptcha(raw.hcaptchaToken, verifyUp) THEN
       Untouched /\ Answer(400, [error |-> "captcha-failed"], 0)
     ELSE
       /\ submission_log' = logged
       /\ IF ~insOk THEN
            /\ UNCHANGED <<reviews, nextId, emails, accepted>>
            /\ Answer(500, [error |-> "insert-failed"], 1)
          ELSE
            /\ reviews' = Insert(reviews, nextId,
                                 [county |-> raw.county, region |-> raw.region, estate |-> raw.estate,
                                  rating |-> ToNumber(raw.rating), title |-> raw.title,
                                  status |-> "pending"])
            /\ nextId' = nextId + 1
            /\ emails' = IF env.RESEND /\ emailOk THEN emails + 1 ELSE emails
            /\ accepted' = Accept("reviews", raw.ip)
            /\ Answer(200, [ok |-> TRUE, status |-> "pending"], 1)

\* the clock of the server moves between requests
Tick(d) ==
  /\ now' = now + d
  /\ UNCHANGED <<env, reviews, nextId, submission_log, ipHits, emails, accepted, submitted, last>>

(***************************************************************************)
(* Submissions: the requests a client can send to the two handlers.        *)
(***************************************************************************)
MaxSubmissions == 2

Rate(t) == [kind |-> "number", tenths |-> t]
NoRating == [kind |-> "absent", tenths |-> 0]
TextRating == [kind |-> "text", tenths |-> 0]

Base ==
  [method |-> "POST", contentType |-> "application/json", ip |-> "203.0.113.7",
   county |-> "Kildare", region |-> "Celbridge", estate |-> "The Grove",
   rating |-> Rate(30), title |-> 5, body |-> 2, website |-> Unset, hcaptchaToken |-> "good"]

ValidationRequests ==
  {[Base EXCEPT !.county = c, !.region = r, !.rating = g, !.title = t, !.body = b] :
     c \in {Unset, "Kildare"}, r \in {" ", "Celbridge"}, g \in {Rate(0), Rate(30)},
     t \in {0, 5, TitleMax + 1}, b \in {0, 2, BodyMax + 1}}

RatingRequests ==
  {[Base EXCEPT !.rating = g] : g \in {NoRating, TextRating, Rate(10), Rate(25), Rate(50), Rate(60)}}

PostRequests ==
  ValidationRequests \cup RatingRequests \cup
  {[Base EXCEPT !.website = "http://spam.example"],
   [Base EXCEPT !.website = "http://spam.example", !.rating = Rate(0), !.body = 0],
   [Base EXCEPT !.estate = Unset],
   [Base EXCEPT !.contentType = "text/plain"]}

ReviewRequests ==
  {[Base EXCEPT !.rating = g, !.title = t, !.hcaptchaToken = k] :
     g \in {Rate(0), Rate(25), Rate(30), Rate(60)}, t \in {0, 5}, k \in {Unset, "good", "bad"}}
  \cup {[Base EXCEPT !.method = "GET"]}

FullDeployment ==
  [Deployment(Secret) EXCEPT !.RATE_LIMIT_SECRET = "pepper", !.HCAPTCHA = TRUE, !.RESEND = TRUE]

InitSubmit ==
  /\ env \in {Deployment(Secret), FullDeployment}
  /\ reviews = [i \in 1..InitReviews |-> Row(i, "approved", FALSE)]
  /\ InitServer

SubmitPost ==
  /\ submitted < MaxSubmissions
  /\ UNCHANGED otherVars
  /\ \E raw \in PostRequests : handlePost(raw, TRUE, TRUE)

SubmitReview ==
  /\ submitted < MaxSubmissions
  /\ UNCHANGED otherVars
  /\ \E raw \in ReviewRequests : reviewsHandler(raw, TRUE, TRUE, TRUE, TRUE, TRUE)

\* the same requests while the table, the log, siteverify or the mailer fail
SubmitPostFailing ==
  /\ submitted < MaxSubmissions
  /\ UNCHANGED otherVars
  /\ \E insOk, emailOk \in BOOLEAN :
       /\ ~(insOk /\ emailOk)
       /\ handlePost(Base, insOk, emailOk)

SubmitReviewFailing ==
  /\ submitted < MaxSubmissions
  /\ UNCHANGED otherVars
  /\ \E countOk, verifyUp, logOk, insOk, emailOk \in BOOLEAN :
       /\ ~(countOk /\ verifyUp /\ logOk /\ insOk /\ emailOk)
       /\ reviewsHandler(Base, countOk, verifyUp, logOk, insOk, emailOk)

NextSubmit == SubmitPost \/ SubmitReview \/ SubmitPostFailing \/ SubmitReviewFailing

SpecSubmit == InitSubmit /\ [][NextSubmit]_vars

(***************************************************************************)
(* Rate limiting: one address sends valid submissions while time passes.   *)
(***************************************************************************)
MaxRateSubmissions == 7
MaxTicks == 2

TickSteps == {windowMs + 1, HourMs}

\* the number of steps of the clock that led to time t
Ticks(t) == (t \div HourMs) + ((t % HourMs) \div (windowMs + 1))

InitRate ==
  /\ env = FullDeployment
  /\ reviews = [i \in 1..InitReviews |-> Row(i, "approved", FALSE)]
  /\ InitServer

RatePost ==
  /\ submitted < MaxRateSubmissions
  /\ UNCHANGED otherVars
  /\ handlePost(Base, TRUE, TRUE)

RateReview ==
  /\ submitted < MaxRateSubmissions
  /\ UNCHANGED otherVars
  /\ reviewsHandler(Base, TRUE, TRUE, TRUE, TRUE, TRUE)

Advance ==
  /\ Ticks(now) < MaxTicks
  /\ UNCHANGED otherVars
  /\ \E d \in TickSteps : Tick(d)

NextRate == RatePost \/ RateReview \/ Advance

SpecRate == InitRate /\ [][NextRate]_vars

(***************************************************************************)
(* Properties of the feed and of the moderation endpoints.                 *)
(***************************************************************************)
RowIds(sq) == {sq[k].id : k \in 1..Len(sq)}

FeedReadDone(l) == l.handler = "reviews.GET" /\ l.code = 200

\* C1: every record a GET /api/reviews response carries has status approved
\* and is not soft-deleted, whatever the query parameters and the table.
C1_FeedOnlyApprovedLive ==
  FeedReadDone(last) =>
    \A k \in 1..Len(last.rows) : last.rows[k].status = "approved" /\ ~last.rows[k].deleted

ModerationHandlers == {"moderation", "moderationV1", "moderate", "list-pending", "moderate/review"}

\* the credential a request presents to the endpoint that served it
Presented(l) ==
  CASE l.handler \in {"moderation", "moderationV1"} -> BearerToken(l.req)
    [] l.handler = "moderate" -> l.req.xAdminPass
    [] OTHER -> AdminToken(l.req)

\* the secret the endpoint that served the request is configured with
ServerSecret(l) ==
  CASE l.handler \in {"moderation", "moderationV1"} -> env.MODERATOR_TOKEN
    [] l.handler = "moderate" -> env.ADMIN_PASSWORD
    [] OTHER -> env.ADMIN_DASH_TOKEN

CredentialBad(l) == ~Truthy(Presented(l)) \/ Presented(l) # ServerSecret(l)

\* C2: a moderation request whose credential is absent or differs from the
\* server-held secret is answered 401 and neither reads nor writes the
\* reviews table, also when the secret is unset or empty.
C2_UnauthorizedNoAccess ==
  (last.handler \in ModerationHandlers /\ CredentialBad(last)) =>
    (last.code = 401 /\ last.reads = 0 /\ last.writes = 0)

\* a moderation action on one row that the endpoint answered as done
ActionDone(l, actions) ==
  /\ l.handler \in {"moderation", "moderationV1"}
  /\ l.req.method = "POST"
  /\ l.code = 200
  /\ l.req.action \in actions

SameTriple(q, r) == q.county = r.county /\ q.region = r.region /\ q.estate = r.estate

\* the feed read of this step follows a moderator's action (of the step
\* before) and asks for the triple of the row the action named
ReadAfter(actions, i) ==
  /\ ActionDone(last, actions)
  /\ last.req.id = i
  /\ FeedReadDone(last')

FeedFollows(Reads(_)) ==
  /\ \A i \in Ids(reviews) :
       (/\ ReadAfter({"approve"}, i)
        /\ Reads(last'.req)
        /\ ~reviews[i].deleted
        /\ SameTriple(last'.req, reviews[i]))
       => i \in RowIds(last'.rows)
  /\ \A i \in RequestIds :
       (ReadAfter({"reject", "delete"}, i) /\ Reads(last'.req)) => i \notin RowIds(last'.rows)

AnyRead(q) == TRUE
DefaultRead(q) == q.status = Unset

\* C6: after an authorized approve of a (not soft-deleted) review every later
\* feed read for its triple includes it, after a reject or delete every later
\* feed read excludes it.  Stated for the feed read that directly follows the
\* moderator's action.
C6_FeedFollowsModeration == [][FeedFollows(AnyRead)]_vars

\* The same for the feed reads that send no status parameter.
FeedFollowsModerationByDefault == [][FeedFollows(DefaultRead)]_vars

Decided(action) == IF action = "approve" THEN "approved" ELSE "rejected"

\* C7: an authorized approve (reject) sets the status of the identified row
\* to approved (rejected) whatever its status was, and changes no other
\* field of it and no other row.
C7_StatusOnly ==
  [][ ActionDone(last', {"approve", "reject"}) =>
        /\ Ids(reviews') = Ids(reviews)
        /\ \A i \in Ids(reviews) :
             /\ reviews'[i].status =
                  IF i = last'.req.id THEN Decided(last'.req.action) ELSE reviews[i].status
             /\ \A f \in DOMAIN reviews[i] \ {"status"} : reviews'[i][f] = reviews[i][f] ]_vars

\* C7 witness: a reject was applied to row 1, which is soft-deleted and now
\* rejected, while row 2 is approved.
C7_Witness ==
  /\ ActionDone(last, {"reject"})
  /\ last.req.id = 1
  /\ 1 \in Ids(reviews) /\ reviews[1].status = "rejected" /\ reviews[1].deleted
  /\ 2 \in Ids(reviews) /\ reviews[2].status = "approved"

\* a request an authorized moderator sent to /api/moderation with this action
Asked(l, actions) ==
  /\ l.handler = "moderation"
  /\ l.req.method = "POST"
  /\ ModerationAuthorized(l.req)
  /\ l.req.action \in actions
  /\ l.code # 500

\* C8: delete is a soft delete (the row stays, marked deleted, status kept)
\* and restore clears the mark.
C8_SoftDeleteRestore ==
  [][ \A i \in Ids(reviews) :
        /\ (Asked(last', {"delete"}) /\ last'.req.id = i) =>
             /\ i \in Ids(reviews')
             /\ reviews'[i] = [reviews[i] EXCEPT !.deleted = TRUE]
        /\ (Asked(last', {"restore"}) /\ last'.req.id = i) =>
             /\ last'.code = 200
             /\ reviews'[i] = [reviews[i] EXCEPT !.deleted = FALSE] ]_vars

\* the identifiers a moderation request names
Named(req) == IF req.ids # {} THEN req.ids ELSE {req.id} \ {0}

\* the response names these identifiers as failed
ReportsFailed(body, S) == "failed" \in DOMAIN body /\ body.failed = S

\* C9: an action on a set of identifiers transitions every named row that
\* exists and reports every named identifier that does not exist as failed.
C9_PerRecordReport ==
  [][ (Asked(last', {"approve", "reject"}) /\ Named(last'.req) # {}) =>
        /\ \A i \in Named(last'.req) \cap Ids(reviews) :
             reviews'[i].status = Decided(last'.req.action)
        /\ Named(last'.req) \ Ids(reviews) # {} =>
             ReportsFailed(last'.body, Named(last'.req) \ Ids(reviews)) ]_vars

(***************************************************************************)
(* Properties of the submission endpoints.                                 *)
(***************************************************************************)
SubmissionStep == submitted' = submitted + 1

NewIds == Ids(reviews') \ Ids(reviews)

Kept == \A i \in Ids(reviews) : i \in Ids(reviews') /\ reviews'[i] = reviews[i]

JsonPost(raw) == raw.method = "POST" /\ raw.contentType = "application/json"

IntegerRating(raw) == raw.rating.kind = "number" /\ raw.rating.tenths \in {10, 20, 30, 40, 50}

CaptchaPassing(raw) == ~env.HCAPTCHA \/ raw.hcaptchaToken = "good"

ValidNoTitle(raw) ==
  /\ JsonPost(raw)
  /\ Trim(raw.county) # "" /\ Trim(raw.region) # "" /\ Trim(raw.estate) # ""
  /\ IntegerRating(raw)
  /\ raw.body \in 1..BodyMax
  /\ raw.title = 0
  /\ Trim(raw.website) = ""

\* C3: a valid submission that has no title, with the anti-abuse checks
\* passing or unconfigured and the store up, is accepted and stores exactly one
\* review, in status pending; no submission stores a review in another status.
C3_TitleOptionalPending ==
  [][SubmissionStep =>
       /\ \A i \in NewIds : reviews'[i].status = "pending"
       /\ (ValidNoTitle(last'.req) /\ CaptchaPassing(last'.req) /\ last'.code \notin {429, 500})
            => (last'.code = 200 /\ Cardinality(NewIds) = 1 /\ Kept)]_vars

\* C4: a submission whose rating is not an integer from 1 to 5 is answered
\* 400 and leaves the reviews, the submission log, the limiter and the mailer
\* as they were.
C4_BadRatingRejected ==
  [][(SubmissionStep /\ JsonPost(last'.req) /\ Trim(last'.req.website) = ""
        /\ ~IntegerRating(last'.req))
       => (last'.code = 400 /\ UNCHANGED <<reviews, submission_log, ipHits, emails>>)]_vars

Rules == {"county", "town", "rating", "body", "title-long", "body-long"}

Violated(rule, raw) ==
  CASE rule = "county" -> Trim(raw.county) = ""
    [] rule = "town" -> Trim(raw.region) = ""
    [] rule = "rating" -> raw.rating.kind # "number" \/ raw.rating.tenths < 10 \/ raw.rating.tenths > 50
    [] rule = "body" -> raw.body = 0
    [] rule = "title-long" -> raw.title > TitleMax
    [] rule = "body-long" -> raw.body > BodyMax

Entry(rule) ==
  CASE rule = "county" -> "county is required"
    [] rule = "town" -> "region is required"
    [] rule = "rating" -> "rating must be 1..5"
    [] rule = "body" -> "body is required"
    [] rule = "title-long" -> "title too long"
    [] rule = "body-long" -> "body too long"

Count(sq, m) == Cardinality({k \in 1..Len(sq) : sq[k] = m})

Details(l) == IF l.code = 400 THEN l.body.details ELSE <<>>

\* C5: the answer of handlePost to a submission that breaks validation rules
\* is 400 and its details carry exactly one entry for each rule broken (county
\* missing, town missing, rating out of range, body empty, title too long,
\* body too long) and none for a rule that is kept.
C5_EveryViolationListed ==
  (last.handler = "reviews.POST" /\ JsonPost(last.req) /\ Trim(last.req.website) = "")
    => \A rule \in Rules :
         Count(Details(last), Entry(rule)) = IF Violated(rule, last.req) THEN 1 ELSE 0

C5_Witness ==
  /\ last.handler = "reviews.POST"
  /\ last.code = 400
  /\ Cardinality({rule \in Rules : Violated(rule, last.req)}) = 5
  /\ Count(last.body.details, "body too long") = 1
  /\ Count(last.body.details, "county is required") = 1

WindowCount(via, ip) ==
  Cardinality({k \in 1..Len(accepted) :
                 accepted[k].via = via /\ accepted[k].ip = ip /\ accepted[k].at >= now - HourMs})

Ceiling(via) == IF via = "reviews.POST" THEN maxPerWindow ELSE RATE_LIMIT_PER_HOUR

\* C10: a valid submission from an address that had fewer than N submissions
\* accepted in the trailing hour is accepted; one from an address that had N
\* accepted in the trailing hour is answered 429 and stores no review, however
\* the submissions are spaced.
C10_HourlyCeiling ==
  [][SubmissionStep =>
       IF WindowCount(last'.handler, last'.req.ip) < Ceiling(last'.handler)
         THEN last'.code = 200 /\ Cardinality(NewIds) = 1
         ELSE last'.code = 429 /\ reviews' = reviews]_vars

(***************************************************************************)
(* POST /api/review, the e-mail generation: handler of pages/api/review.ts *)
(* (next.config.mjs).  It stores nothing; it mails the moderator.          *)
(***************************************************************************)
\* errors of pages/api/review.ts: the rules of handlePost, the two length
\* messages naming the maximum
ValidateMail(p) ==
     If(p.county = "", "county is required")
  \o If(p.region = "", "region is required")
  \o If(p.rating.nan \/ Less(p.rating, 1) \/ Greater(p.rating, 5), "rating must be 1..5")
  \o If(p.title = 0, "title is required")
  \o If(p.body = 0, "body is required")
  \o If(p.title > TitleMax, "title too long (max 120)")
  \o If(p.body > BodyMax, "body too long (max 5000)")

\* hitLimit(ip): the slot the call leaves in the Map
hitLimitSlot(ip) ==
  IF ip \notin DOMAIN mailHits \/ mailHits[ip].resetAt < now
    THEN [count |-> 1, resetAt |-> now + windowMs]
    ELSE [count |-> mailHits[ip].count + 1, resetAt |-> mailHits[ip].resetAt]

\* hitLimit(ip): its result
hitLimit(ip) ==
  IF ip \notin DOMAIN mailHits \/ mailHits[ip].resetAt < now
    THEN FALSE
    ELSE mailHits[ip].count + 1 > maxPerWindow

\* emailOk: resend.emails.send() does not throw
reviewMail(raw, emailOk) ==
  LET p == Payload(raw)
      errors == ValidateMail(p)
      Answer(code, body) == last' = Resp("review", raw, code, body, NoRows, 0, 0)
  IN
  /\ submitted' = submitted + 1
  /\ UNCHANGED <<env, reviews, nextId, submission_log, ipHits, now, accepted>>
  /\ IF raw.method # "POST" THEN
       UNCHANGED <<mailHits, emails>> /\ Answer(405, [error |-> "Method not allowed"])
     ELSE IF raw.contentType # "application/json" THEN
       UNCHANGED <<mailHits, emails>> /\ Answer(415, [error |-> "Content-Type must be application/json"])
     ELSE IF p.website # "" THEN
       UNCHANGED <<mailHits, emails>> /\ Answer(200, [ok |-> TRUE, silent |-> TRUE])
     ELSE IF errors # <<>> THEN
       UNCHANGED <<mailHits, emails>> /\ Answer(400, [error |-> "Invalid payload", details |-> errors])
     ELSE
       /\ mailHits' = Put(mailHits, raw.ip, hitLimitSlot(raw.ip))
       /\ IF hitLimit(raw.ip) THEN
            UNCHANGED emails /\ Answer(429, [error |-> "Too many requests, slow down."])
          ELSE IF ~env.RESEND THEN
            UNCHANGED emails /\ Answer(200, [ok |-> TRUE, email |-> "skipped (no key)"])
          ELSE IF emailOk THEN
            emails' = emails + 1 /\ Answer(200, [ok |-> TRUE, id |-> "email-id"])
          ELSE
            UNCHANGED emails /\ Answer(500, [error |-> "Failed to send email"])

(***************************************************************************)
(* The honeypot runs: submissions with and without the honeypot field      *)
(* filled, valid and invalid, to the two handlers that read the field.     *)
(***************************************************************************)
MaxHoneypotSubmissions == 3

HoneypotRequests ==
  {[Base EXCEPT !.website = w, !.county = c, !.rating = g, !.title = t] :
     w \in {Unset, " ", "http://spam.example"}, c \in {Unset, "Kildare"},
     g \in {Rate(0), Rate(30)}, t \in {0, 5}}
  \cup {[Base EXCEPT !.website = "http://spam.example", !.contentType = "text/plain"],
        [Base EXCEPT !.website = "http://spam.example", !.method = "GET"]}

InitHoneypot ==
  /\ env \in {Deployment(Secret), FullDeployment}
  /\ reviews = [i \in 1..InitReviews |-> Row(i, "approved", FALSE)]
  /\ InitServer

HoneypotPost ==
  /\ submitted < MaxHoneypotSubmissions
  /\ UNCHANGED otherVars
  /\ \E raw \in HoneypotRequests : raw.method = "POST" /\ handlePost(raw, TRUE, TRUE)

HoneypotMail ==
  /\ submitted < MaxHoneypotSubmissions
  /\ UNCHANGED clientVars
  /\ \E raw \in HoneypotRequests, emailOk \in BOOLEAN : reviewMail(raw, emailOk)

NextHoneypot == HoneypotPost \/ HoneypotMail

SpecHoneypot == InitHoneypot /\ [][NextHoneypot]_vars

HoneypotFilled(raw) == JsonPost(raw) /\ Trim(raw.website) # ""

AcceptedAnswer(l) ==
  /\ l.handler \in {"reviews.POST", "review"}
  /\ JsonPost(l.req) /\ Trim(l.req.website) = ""
  /\ l.code = 200

\* C12: the answer to a submission with the honeypot filled has the status
\* code and the body fields of the answer the same handler gives to a
\* submission it accepts.
C12_HoneypotIndistinguishable ==
  [][(SubmissionStep /\ AcceptedAnswer(last) /\ last'.handler = last.handler
        /\ HoneypotFilled(last'.req))
       => (last'.code = last.code /\ DOMAIN last'.body = DOMAIN last.body)]_vars

(***************************************************************************)
(* The order of the anti-abuse checks: one address sends submissions with  *)
(* good and bad CAPTCHA tokens to the handler of pages/api/reviews.ts while *)
(* its hourly quota fills.                                                 *)
(***************************************************************************)
MaxOrderSubmissions == 6

OrderSubmit ==
  /\ submitted < MaxOrderSubmissions
  /\ UNCHANGED otherVars
  /\ \E k \in {Unset, "good", "bad"}, verifyUp \in BOOLEAN :
       reviewsHandler([Base EXCEPT !.hcaptchaToken = k], TRUE, verifyUp, TRUE, TRUE, TRUE)

NextOrder == OrderSubmit \/ Advance

SpecOrder == InitRate /\ [][NextOrder]_vars

\* C13: a submission that fails CAPTCHA verification is answered
\* captcha-failed (400) and writes nothing, also when its address is at the
\* rate-limit ceiling; a submission refused by the rate limit writes nothing.
C13_CaptchaBeforeRateLimit ==
  [][(SubmissionStep /\ last'.handler = "reviews" /\ JsonPost(last'.req))
       => /\ (env.HCAPTCHA /\ last'.req.hcaptchaToken # "good")
               => /\ last'.code = 400 /\ last'.body.error = "captcha-failed"
                  /\ UNCHANGED <<reviews, submission_log, emails>>
          /\ last'.code = 429 => UNCHANGED <<reviews, submission_log, emails>>]_vars

\* C14: a submission whose review insert succeeded is answered as a success
\* and the review is stored as pending, the other rows untouched, also when
\* the submission-log append fails or the notification e-mail throws.
C14_SideEffectsBestEffort ==
  [][(SubmissionStep /\ NewIds # {})
       => /\ last'.code = 200 /\ last'.body.ok
          /\ Cardinality(NewIds) = 1
          /\ \A i \in NewIds : reviews'[i].status = "pending"
          /\ Kept]_vars

\* C14 witness: both handlers accepted a submission in a deployment with the
\* log and the mailer configured, and no log row and no e-mail came of them.
C14_Witness ==
  /\ env = FullDeployment
  /\ Len(accepted) = 2 /\ accepted[1].via # accepted[2].via
  /\ Cardinality(Ids(reviews)) = InitReviews + 2
  /\ submission_log = <<>> /\ emails = 0
  /\ last.code = 200

(***************************************************************************)
(* The moderation console, pages/admin/moderate.tsx: load() and act().     *)
(* An entry of acts is one call of act(): [id, action, prev, state], state *)
(* "flight" until the fetch resolves, then "ok" or "failed".  okResp is    *)
(* true when the response parses and carries ok: true.                     *)
(***************************************************************************)
ConsoleRows == 3
MaxActs == 2

\* r.filter((x) => x.id !== id)
Without(sq, id) == SelectSeq(sq, LAMBDA x : x # id)

Listed(sq) == {sq[k] : k \in 1..Len(sq)}

InFlight == {k \in 1..Len(acts) : acts[k].state = "flight"}

\* the catch of act(), which sets the error and nothing else
RollbackErrorOnly(pg, a) == [pg EXCEPT !.error = "Action failed"]

\* the catch of act(): setError(e.message); setReviews(prev)
Rollback(pg, a) == [pg EXCEPT !.error = "Action failed", !.reviews = a.prev]

\* act(id, action) up to its await; confirmed is the answer to confirm()
actClick(id, action, confirmed) ==
  /\ id \in Listed(page.reviews)
  /\ action = "delete" => confirmed
  /\ acts' = Append(acts, [id |-> id, action |-> action, prev |-> page.reviews, state |-> "flight"])
  /\ page' = [page EXCEPT !.reviews = Without(page.reviews, id)]
  /\ UNCHANGED notConsole

\* act() after its await: the fetch of call k resolved
actResolve(k, okResp) ==
  /\ k \in InFlight
  /\ acts' = [acts EXCEPT ![k].state = IF okResp THEN "ok" ELSE "failed"]
  /\ page' = IF okResp THEN page ELSE Rollback(page, acts[k])
  /\ UNCHANGED notConsole

\* load() up to its await; the Load button is disabled while loading
loadClick ==
  /\ ~page.loading
  /\ page' = [page EXCEPT !.loading = TRUE, !.error = Unset]
  /\ UNCHANGED <<acts, notConsole>>

\* load() after its await
loadResolve(okResp, rows) ==
  /\ page.loading
  /\ page' = IF okResp
               THEN [page EXCEPT !.reviews = rows, !.loading = FALSE]
               ELSE [page EXCEPT !.error = "Failed to load", !.loading = FALSE]
  /\ UNCHANGED <<acts, notConsole>>

FullLoad == [k \in 1..ConsoleRows |-> k]

InitConsole ==
  /\ env = Deployment(Secret)
  /\ reviews = [i \in 1..ConsoleRows |-> Row(i, "pending", FALSE)]
  /\ InitServer

(***************************************************************************)
(* The console used one request at a time: nothing is started while an     *)
(* action or a load is in flight.                                          *)
(***************************************************************************)
Quiet == InFlight = {} /\ ~page.loading

SoloClick ==
  /\ Quiet
  /\ Len(acts) < MaxActs
  /\ \E id \in 1..ConsoleRows, action \in {"approve", "reject", "delete"} : actClick(id, action, TRUE)

SoloResolve == \E k \in InFlight, okResp \in BOOLEAN : actResolve(k, okResp)

SoloLoad == Quiet /\ loadClick

SoloLoaded == \E okResp \in BOOLEAN, rows \in {FullLoad, <<>>} : loadResolve(okResp, rows)

NextConsoleSolo == SoloClick \/ SoloResolve \/ SoloLoad \/ SoloLoaded

SpecConsoleSolo == InitConsole /\ [][NextConsoleSolo]_vars

\* C15: an action issued from the console with nothing else in flight removes
\* the record from the local list at once; when the response is ok the list
\* stays as it is, the record removed; when the request throws or the
\* response is not ok the list is again the list as it was before the
\* action and the error message is set.
C15_OptimisticRollback ==
  [][/\ Len(acts') = Len(acts) + 1
          => LET a == acts'[Len(acts')]
             IN  /\ a.id \in Listed(page.reviews)
                 /\ page'.reviews = Without(page.reviews, a.id)
                 /\ a.id \notin Listed(page'.reviews)
                 /\ a.prev = page.reviews
     /\ \A k \in InFlight :
          /\ acts'[k].state = "ok"
               => page'.reviews = page.reviews /\ acts[k].id \notin Listed(page'.reviews)
          /\ acts'[k].state = "failed"
               => /\ page'.reviews = acts[k].prev
                  /\ acts[k].id \in Listed(page'.reviews)
                  /\ page'.error # Unset]_vars

\* C15 witness: after an action that succeeded, a second action failed and
\* the list is the list of before it: the loaded rows but the first record.
C15_Witness ==
  /\ Len(acts) = 2
  /\ acts[1].state = "ok" /\ acts[2].state = "failed"
  /\ acts[1].id = 1 /\ acts[2].id = 2
  /\ page.reviews = <<2, 3>>
  /\ page.error = "Action failed"

(***************************************************************************)
(* The review lists of the pages: an effect keyed on the selected estate   *)
(* (or on the route's triple) starts a fetch and applies its response.     *)
(* Variants:                                                               *)
(*   "useReviews"   pages/api/reviews.ts useReviews (cancel flag)          *)
(*   "Reviews"      pages/admin/moderate.tsx Reviews (cancelled flag)      *)
(*   "useReviews7"  unnamed/part_007 useReviews (cancel flag, no catch)    *)
(*   "EstatePage"   pages/[county]/[town]/[estate].tsx (no flag)           *)
(*   "EstatePage15" unnamed/part_015, part_016 (no flag)                   *)
(* An entry of fetches is [estate, cancel, state, outcome, late]; late     *)
(* records that the selection had moved on when the response arrived.      *)
(* The items and the error a response carries are named by its fetch.      *)
(***************************************************************************)
MaxFetches == 3

Estates == {"estate-a", "estate-b"}

FlagVariants == {"useReviews", "Reviews", "useReviews7"}
PageVariants == {"EstatePage", "EstatePage15"}

Data(k) == [of |-> k, estate |-> fetches[k].estate]
Err(k) == [of |-> k]

\* the outcomes of the awaited call: a supabase query resolves with data or
\* with an error and does not reject; fetch() and res.json() can also throw
Outcomes(variant) ==
  IF variant \in {"useReviews", "useReviews7"} THEN {"ok", "error"} ELSE {"ok", "error", "throw"}

\* a flag that is never read
CancelledNever(f) == FALSE

\* if (!cancel), if (!cancelled): the flag of the effect that started the fetch
Cancelled(f) == hook.variant \in FlagVariants /\ f.cancel

\* the cleanup of the previous effect: () => { cancel = true }
Cleanup ==
  IF hook.variant \in FlagVariants /\ hook.estateId # Unset /\ fetches # <<>>
    THEN [fetches EXCEPT ![Len(fetches)].cancel = TRUE]
    ELSE fetches

\* the effect up to its await, for the estate e
Started(e) ==
  CASE e = Unset /\ hook.variant \in FlagVariants -> [hook EXCEPT !.estateId = e, !.items = NoItems]
    [] e = Unset -> [hook EXCEPT !.estateId = e]
    [] hook.variant = "EstatePage" -> [hook EXCEPT !.estateId = e, !.loading = TRUE]
    [] OTHER -> [hook EXCEPT !.estateId = e, !.loading = TRUE, !.error = NoError]

\* the effect after its await: what fetch k sets, given its outcome
Applied(k, outcome) ==
  CASE hook.variant = "useReviews" ->
         [hook EXCEPT !.items = IF outcome = "ok" THEN Data(k)
                                 ELSE IF outcome = "error" THEN NoItems ELSE @,
                      !.error = IF outcome = "ok" THEN @ ELSE Err(k),
                      !.loading = FALSE]
    [] hook.variant = "Reviews" ->
         [hook EXCEPT !.items = IF outcome = "ok" THEN Data(k) ELSE @,
                      !.error = IF outcome = "ok" THEN @ ELSE Err(k),
                      !.loading = FALSE]
    [] hook.variant = "useReviews7" ->
         IF outcome = "throw" THEN hook
         ELSE [hook EXCEPT !.items = IF outcome = "ok" THEN Data(k) ELSE NoItems,
                           !.error = IF outcome = "ok" THEN @ ELSE Err(k),
                           !.loading = FALSE]
    [] hook.variant = "EstatePage" ->
         [hook EXCEPT !.items = IF outcome = "ok" THEN Data(k) ELSE @,
                      !.error = IF outcome = "ok" THEN @ ELSE Err(k),
                      !.loading = FALSE]
    [] OTHER ->
         [hook EXCEPT !.items = IF outcome = "ok" THEN Data(k) ELSE NoItems,
                      !.error = IF outcome = "ok" THEN @ ELSE Err(k),
                      !.loading = FALSE]

\* the selected estate (the route) changes to e: cleanup, then the effect
select(e) ==
  /\ e # hook.estateId
  /\ hook' = Started(e)
  /\ fetches' = IF e = Unset THEN Cleanup
                ELSE Append(Cleanup, [estate |-> e, cancel |-> FALSE, state |-> "flight",
                                      outcome |-> "none", late |-> FALSE])
  /\ UNCHANGED notHooks

Current(k) == k = Len(fetches) /\ hook.estateId = fetches[k].estate

\* the awaited call of fetch k settles
resolve(k, outcome) ==
  /\ k \in 1..Len(fetches) /\ fetches[k].state = "flight"
  /\ outcome \in Outcomes(hook.variant)
  /\ fetches' = [fetches EXCEPT ![k].state = "done", ![k].outcome = outcome,
                                ![k].late = ~Current(k)]
  /\ hook' = IF Cancelled(fetches[k]) THEN hook ELSE Applied(k, outcome)
  /\ UNCHANGED notHooks

Mounted(variant) ==
  [variant |-> variant, estateId |-> Unset, items |-> NoItems,
   loading |-> variant = "EstatePage", error |-> NoError]

InitHooks(variants) ==
  /\ env = Deployment(Secret)
  /\ reviews = [i \in 1..InitReviews |-> Row(i, "approved", FALSE)]
  /\ ServerIdle /\ ConsoleIdle /\ SelectorIdle /\ ComboIdle /\ NavIdle /\ IndexIdle /\ FlightIdle
  /\ \E v \in variants : hook = Mounted(v)
  /\ fetches = <<>>

SelectEstate ==
  /\ Len(fetches) < MaxFetches
  /\ \E e \in Estates : select(e)

ClearEstate == select(Unset)

ResolveFetch == \E k \in 1..Len(fetches), outcome \in {"ok", "error", "throw"} : resolve(k, outcome)

NextHooks == SelectEstate \/ ClearEstate \/ ResolveFetch

InitFlagHooks == InitHooks(FlagVariants)

SpecHooks == InitFlagHooks /\ [][NextHooks]_vars

InitEstatePage == InitHooks(PageVariants)

SpecEstatePage == InitEstatePage /\ [][NextHooks]_vars

AllSettled == \A k \in 1..Len(fetches) : fetches[k].state = "done"

\* the list shows what the fetch issued for the selected estate brought
ShowsCurrent ==
  (hook.estateId # Unset /\ fetches # <<>> /\ AllSettled)
    => LET k == Len(fetches)
       IN  /\ fetches[k].estate = hook.estateId
           /\ fetches[k].outcome = "ok" => hook.items = Data(k) /\ hook.error = NoError
           /\ fetches[k].outcome # "ok" => hook.error = Err(k) /\ hook.items.of \in {0, k} \cup
                                            {j \in 1..k : ~fetches[j].late /\ fetches[j].outcome = "ok"}

\* the response of a fetch that the selection has left behind changes nothing
LateDropped ==
  \A k \in 1..Len(fetches) :
    (fetches[k].state = "flight" /\ fetches'[k].state = "done" /\ fetches'[k].late)
      => hook' = hook

\* C16: in the review lists that carry a cancelled flag, the response of a
\* fetch that arrives after the selected estate has changed is never applied,
\* and once every response has arrived, in any order, the items and the error
\* are those of the fetch issued for the estate now selected.
C16_StaleFetchDiscarded == [][LateDropped /\ ShowsCurrent']_vars

\* C16 witness: the fetch for the first estate answered after the second
\* estate was selected and after the second fetch had answered; the list
\* shows the items of the second fetch.
C16_Witness ==
  /\ Len(fetches) = 2 /\ AllSettled
  /\ fetches[1].late /\ fetches[1].outcome = "ok" /\ ~fetches[2].late
  /\ hook.items = Data(2) /\ hook.estateId = fetches[2].estate
  /\ fetches[1].estate # fetches[2].estate

\* C17: on the estate page, the response of the fetch for the previous triple
\* that arrives after the route has changed is discarded, and once both
\* responses have arrived, in either order, the reviews shown are those
\* fetched for the current triple.
C17_EstatePageStaleDiscarded ==
  [][hook.variant \in PageVariants => (LateDropped /\ ShowsCurrent')]_vars

(***************************************************************************)
(* The cascading selector: County, then Town, then Estate.  Three pages    *)
(* carry one: CascadingSearch (components/CascadingSearch.tsx, three       *)
(* Combobox), Home of pages/index.tsx (three FilterSelect) and the Home    *)
(* with three <select> (named "HomeSelect" here).  An action is one event  *)
(* of the browser together with the renders and the effects it causes, up  *)
(* to the settled state.  An unset selection ("" or null) is Unset.  In    *)
(* the Home with <select> the towns come from a fetch (useTowns):          *)
(* listedFor is the county whose towns the Town picker lists, which is the *)
(* previous county until the fetch for the new one resolves.               *)
(***************************************************************************)
SelectorVariants == {"CascadingSearch", "Home", "HomeSelect"}
Pickers == {"county", "town", "estate"}

\* one row of the Place Index
PlaceRow(c, t, e) == [county |-> c, town |-> t, estate |-> e]

\* a cut of the built-in data set, and a data set handed in by the page
\* (initialData) in which two counties have a town of the same name
DEFAULT_DATA ==
  {PlaceRow("Kildare", "Celbridge", "The Grove"), PlaceRow("Kildare", "Naas", "Monread"),
   PlaceRow("Dublin", "Swords", "Ridgewood")}

initialData ==
  {PlaceRow("Kildare", "Newtown", "The Grove"), PlaceRow("Dublin", "Newtown", "The Grove"),
   PlaceRow("Dublin", "Swords", "Ridgewood")}

PlaceIndexes == {DEFAULT_DATA, initialData}

\* what a user can type into the text box of a picker
Texts == {Unset, "Ki", "Kildare", "Newtown"}

\* the options of the three pickers.  Home of pages/index.tsx filters the
\* rows by the selections that are set; the other two list nothing below a
\* parent that is unset.
counties(s) == {r.county : r \in s.data}

towns(s) ==
  CASE s.variant = "Home" ->
         {r.town : r \in {x \in s.data : s.county = Unset \/ x.county = s.county}}
    [] s.variant = "HomeSelect" ->
         {r.town : r \in {x \in s.data : x.county = s.listedFor}}
    [] OTHER ->
         IF s.county = Unset THEN {}
         ELSE {r.town : r \in {x \in s.data : x.county = s.county}}

estates(s) ==
  IF s.variant = "Home"
  THEN {r.estate : r \in {x \in s.data : /\ (s.county = Unset \/ x.county = s.county)
                                         /\ (s.town = Unset \/ x.town = s.town)}}
  ELSE IF s.county = Unset \/ s.town = Unset THEN {}
       ELSE {r.estate : r \in {x \in s.data : x.county = s.county /\ x.town = s.town}}

items(s, picker) ==
  CASE picker = "county" -> counties(s)
    [] picker = "town" -> towns(s)
    [] picker = "estate" -> estates(s)

\* the disabled prop of a picker: disabled={!county}, disabled={!town}
disabled(s, picker) ==
  CASE picker = "county" -> FALSE
    [] picker = "town" -> s.county = Unset
    [] picker = "estate" -> s.town = Unset

\* the effects keyed on the selections, run to the settled state:
\* useEffect(() => { setTown(""); setEstate(""); }, [county]) and
\* useEffect(() => { setEstate(""); }, [town]).  An effect runs after a
\* render in which its dependency differs from the previous render's; a
\* setState with the value the state already has causes no render.
effects(prev, next) ==
  LET afterCounty == IF next.county # prev.county
                     THEN [next EXCEPT !.town = Unset, !.estate = Unset]
                     ELSE next
  IN  IF afterCounty.town # prev.town
      THEN [afterCounty EXCEPT !.estate = Unset]
      ELSE afterCounty

Event(kind, picker) == [kind |-> kind, picker |-> picker]

\* Combobox: commit(v) of an option of the open list (a click on the option,
\* or Enter on the active option) calls onSelect, the setter of the picker.
\* The list of a disabled picker is empty.
commit(picker, v) ==
  /\ selector.variant = "CascadingSearch"
  /\ v \in items(selector, picker)
  /\ selector' = [effects(selector, [selector EXCEPT ![picker] = v])
                    EXCEPT !.event = Event("select", picker)]
  /\ UNCHANGED notSelector

\* Combobox: the text box is <input value={value} onChange={(e) =>
\* onChange(e.target.value)}>, and onChange is the setter of the picker.  The
\* disabled prop only styles the wrapper (opacity, pointer-events: none): the
\* input carries no disabled attribute, so it still takes keyboard focus and
\* keystrokes.
onChange(picker, text) ==
  /\ selector.variant = "CascadingSearch"
  /\ text # selector[picker]
  /\ selector' = [effects(selector, [selector EXCEPT ![picker] = text])
                    EXCEPT !.event = Event("type", picker)]
  /\ UNCHANGED notSelector

\* the Clear button of CascadingSearch
clear ==
  /\ selector.variant = "CascadingSearch"
  /\ selector' = [effects(selector, [selector EXCEPT !.county = Unset, !.town = Unset,
                                                      !.estate = Unset])
                    EXCEPT !.event = Event("clear", Unset)]
  /\ UNCHANGED notSelector

\* FilterSelect of pages/index.tsx: the click on an option of the list, which
\* is rendered only when open && !disabled (the input and the button carry
\* the disabled attribute).  Home resets the children in the handler itself.
FilterSelect(picker, opt) ==
  /\ selector.variant = "Home"
  /\ ~disabled(selector, picker)
  /\ opt \in items(selector, picker)
  /\ selector' =
       [(CASE picker = "county" -> [selector EXCEPT !.county = opt, !.town = Unset, !.estate = Unset]
           [] picker = "town" -> [selector EXCEPT !.town = opt, !.estate = Unset]
           [] picker = "estate" -> [selector EXCEPT !.estate = opt])
          EXCEPT !.event = Event("select", picker)]
  /\ UNCHANGED notSelector

\* the Home with three <select disabled={...}>: a change event carries a
\* value other than the current one, an option of the list or the empty
\* first option; onChange stores e.target.value || null.
selectChange(picker, v) ==
  /\ selector.variant = "HomeSelect"
  /\ ~disabled(selector, picker)
  /\ v \in items(selector, picker) \cup {Unset}
  /\ v # selector[picker]
  /\ LET next == effects(selector, [selector EXCEPT ![picker] = v])
     IN  selector' = [next EXCEPT !.event = Event("select", picker),
                                  !.listedFor = IF next.county = Unset THEN Unset ELSE @]
  /\ UNCHANGED notSelector

\* useTowns: the fetch of the towns of the selected county resolves (the
\* fetches of the counties left behind are cancelled) and set(data) lists them
townsLoaded ==
  /\ selector.variant = "HomeSelect"
  /\ selector.county # Unset
  /\ selector.listedFor # selector.county
  /\ selector' = [selector EXCEPT !.listedFor = selector.county, !.event = Event("loaded", "town")]
  /\ UNCHANGED notSelector

\* setData(next) of handleCSV, setData(res) of the fetchData effect: the
\* Place Index is replaced and the selections stay as they are
setData(d) ==
  /\ selector.variant = "CascadingSearch"
  /\ d # selector.data
  /\ selector' = [selector EXCEPT !.data = d, !.event = Event("data", Unset)]
  /\ UNCHANGED notSelector

\* a selector as mounted: useState("") three times (useState(null) in the
\* Home with <select>); the effects of the mount set what is already unset
SelectorMounted(variant, data) ==
  [variant |-> variant, data |-> data, county |-> Unset, town |-> Unset,
   estate |-> Unset, listedFor |-> Unset, event |-> NoEvent]

InitSelector ==
  /\ env = Deployment(Secret)
  /\ reviews = [i \in 1..InitReviews |-> Row(i, "approved", FALSE)]
  /\ ServerIdle /\ ConsoleIdle /\ HooksIdle /\ ComboIdle /\ NavIdle /\ IndexIdle /\ FlightIdle
  /\ \E v \in SelectorVariants, d \in PlaceIndexes : selector = SelectorMounted(v, d)

Commit == \E picker \in Pickers, v \in UNION {items(selector, p) : p \in Pickers} : commit(picker, v)

TypeInto == \E picker \in Pickers, text \in Texts : onChange(picker, text)

Clear == clear

PickOption ==
  \E picker \in Pickers, opt \in UNION {items(selector, p) : p \in Pickers} :
    FilterSelect(picker, opt)

ChangeSelect ==
  \E picker \in Pickers, v \in UNION {items(selector, p) : p \in Pickers} \cup {Unset} :
    selectChange(picker, v)

TownsLoaded == townsLoaded

NextSelector == Commit \/ TypeInto \/ Clear \/ PickOption \/ ChangeSelect \/ TownsLoaded

SpecSelector == InitSelector /\ [][NextSelector]_vars

\* the selector whose Place Index is replaced while it is in use
ReplaceData == \E d \in PlaceIndexes : setData(d)

NextSelectorData == NextSelector \/ ReplaceData

SpecSelectorData == InitSelector /\ [][NextSelectorData]_vars

(***************************************************************************)
(* Properties of the cascading selector.                                   *)
(***************************************************************************)
Selected(picker) == selector.event = Event("select", picker)

\* C18: after every county selection event the selected town and the selected
\* estate are unset, and after every town selection event the selected estate
\* is unset, whatever was selected before (the value selected may be the one
\* already selected) and whatever the Place Index holds.
C18_SelectionResetsChildren ==
  /\ Selected("county") => (selector.town = Unset /\ selector.estate = Unset)
  /\ Selected("town") => selector.estate = Unset

\* C19: a picker takes no input while its parent is unset, so in every
\* settled state of the selector a selected estate implies a selected town
\* and a selected town implies a selected county.
C19_ChildNeedsParent ==
  /\ selector.estate # Unset => selector.town # Unset
  /\ selector.town # Unset => selector.county # Unset

(***************************************************************************)
(* The ranked filter of a Combobox (components/CascadingSearch.tsx).  A    *)
(* string is the sequence of its characters.  The characters of the model  *)
(* are a, b, c, A, B, the precomposed a-acute and the combining acute      *)
(* accent, written "'".                                                    *)
(***************************************************************************)
MaxListLen == 2
QuerySlice == 32
CandidateSlice == 64
Infinity == 1000000

Acute == "'"

RECURSIVE Repeat(_, _)
Repeat(c, n) == IF n = 0 THEN <<>> ELSE <<c>> \o Repeat(c, n - 1)

\* String.prototype.normalize("NFD"): a precomposed letter becomes its base
\* letter followed by the combining mark
RECURSIVE NFD(_)
NFD(str) ==
  IF str = <<>> THEN <<>>
  ELSE (IF Head(str) = "á" THEN <<"a", Acute>> ELSE <<Head(str)>>) \o NFD(Tail(str))

\* .replace(/\p{Diacritic}/gu, "")
StripDiacritics(str) == SelectSeq(str, LAMBDA c : c # Acute)

toLowerCase(str) ==
  [i \in 1..Len(str) |-> CASE str[i] = "A" -> "a" [] str[i] = "B" -> "b" [] OTHER -> str[i]]

norm(str) == toLowerCase(StripDiacritics(NFD(str)))

slice(str, n) == SubSeq(str, 1, IF Len(str) < n THEN Len(str) ELSE n)

\* String.prototype.indexOf: the first position (from 0) at which q occurs
\* in n, -1 when it occurs nowhere; the empty string occurs at 0
Occurs(n, q) == {i \in 0..(Len(n) - Len(q)) : SubSeq(n, i + 1, i + Len(q)) = q}

indexOf(n, q) ==
  IF Occurs(n, q) = {} THEN -1
  ELSE CHOOSE i \in Occurs(n, q) : \A k \in Occurs(n, q) : i <= k

Min3(x, y, z) ==
  IF x <= y /\ x <= z THEN x ELSE IF y <= z THEN y ELSE z

\* levenshtein: the row dp[i] computed from the row dp[i - 1]; acc holds the
\* cells dp[i][0 .. Len(acc) - 1]
RECURSIVE levRow(_, _, _, _, _)
levRow(a, b, i, prev, acc) ==
  LET j == Len(acc) IN
  IF j > Len(b) THEN acc
  ELSE IF j = 0 THEN levRow(a, b, i, prev, <<i>>)
  ELSE LET cost == IF a[i] = b[j] THEN 0 ELSE 1
           cell == Min3(prev[j + 1] + 1, acc[j] + 1, prev[j] + cost)
       IN  levRow(a, b, i, prev, Append(acc, cell))

\* the rows in turn; a row has Len(b) + 1 cells, and the test makes the row
\* a value before the next one is computed from it
RECURSIVE levRows(_, _, _, _)
levRows(a, b, i, prev) ==
  IF i > Len(a) THEN prev
  ELSE LET row == levRow(a, b, i, prev, <<>>)
       IN  IF Len(row) = Len(b) + 1 THEN levRows(a, b, i + 1, row) ELSE prev

levenshtein(a, b) == levRows(a, b, 1, [j \in 1..(Len(b) + 1) |-> j - 1])[Len(b) + 1]

\* a.localeCompare(b) < 0, by collation keys: the base letters first, then the
\* accents, then the case (lower case first)
RECURSIVE LexLess(_, _)
LexLess(x, y) ==
  IF y = <<>> THEN FALSE
  ELSE IF x = <<>> THEN TRUE
  ELSE IF Head(x) # Head(y) THEN Head(x) < Head(y)
  ELSE LexLess(Tail(x), Tail(y))

Letter(c) == CASE c \in {"a", "A"} -> 1 [] c \in {"b", "B"} -> 2 [] OTHER -> 3

CollationKey(str) ==
  LET d == NFD(str)
      base == StripDiacritics(d)
      accents == [i \in 1..Len(base) |->
                    IF \E k \in 1..Len(d) - 1 :
                         /\ d[k + 1] = Acute
                         /\ Len(StripDiacritics(SubSeq(d, 1, k))) = i
                    THEN 2 ELSE 1]
  IN  [i \in 1..Len(base) |-> Letter(base[i])] \o <<0>> \o accents \o <<0>>
        \o [i \in 1..Len(base) |-> IF base[i] \in {"A", "B"} THEN 2 ELSE 1]

localeLess(a, b) == LexLess(CollationKey(a), CollationKey(b))

\* the comparator of the sort: a.rank - b.rank || a.score - b.score ||
\* a.item.localeCompare(b.item), negative
Precedes(x, y) ==
  \/ x.rank < y.rank
  \/ x.rank = y.rank /\ x.score < y.score
  \/ x.rank = y.rank /\ x.score = y.score /\ localeLess(x.item, y.item)

\* Array.prototype.sort (stable) under a "comes before" relation
RECURSIVE SortedInsert(_, _, _)
SortedInsert(x, sq, byItem) ==
  IF sq = <<>> THEN <<x>>
  ELSE IF (IF byItem THEN localeLess(x, Head(sq)) ELSE Precedes(x, Head(sq)))
       THEN <<x>> \o sq
       ELSE <<Head(sq)>> \o SortedInsert(x, Tail(sq), byItem)

RECURSIVE sort(_, _)
sort(sq, byItem) ==
  IF sq = <<>> THEN <<>>
  ELSE SortedInsert(sq[Len(sq)], sort(SubSeq(sq, 1, Len(sq) - 1), byItem), byItem)

\* Math.ceil(q.length * 0.5)
Threshold(q) == (Len(q) + 1) \div 2

\* the record the filter computes for one item of the list
Ranked(item, q, fuzzy) ==
  LET n == norm(item)
      i == indexOf(n, q)
      prefix == i = 0
      contains == i > 0
      lev == IF fuzzy THEN levenshtein(slice(q, QuerySlice), slice(n, CandidateSlice))
             ELSE Infinity
  IN  [item |-> item,
       rank |-> IF prefix THEN 0 ELSE IF contains THEN 1 ELSE 2,
       score |-> IF prefix \/ contains THEN i ELSE lev,
       lev |-> lev]

rankedAlphabeticalFilter(list, query, fuzzy) ==
  IF query = <<>> THEN sort(list, TRUE)
  ELSE LET q == norm(query)
           base == [k \in 1..Len(list) |-> Ranked(list[k], q, fuzzy)]
           filtered == SelectSeq(base, LAMBDA x : x.rank < 2 \/ x.lev <= Threshold(q))
           ordered == sort(filtered, FALSE)
       IN  [k \in 1..Len(ordered) |-> ordered[k].item]

\* the names a list of the model is made of, and the queries typed
Candidates ==
  {<<"a", "b">>, <<"á", "b", "a">>, <<"b", "a">>, <<"B", "a", "b">>, <<"b", "b">>,
   <<"c", "c", "c">>, Repeat("a", 15)}

Queries ==
  {<<>>, <<"a">>, <<"b">>, <<"á">>, <<"A", "b">>, <<"a", "a">>, <<"b", "a", "b">>,
   <<"c", "a">>, Repeat("a", 14), Repeat("a", QuerySlice) \o <<"b">>}

\* the sequences of at most n candidates
RECURSIVE Lists(_)
Lists(n) ==
  IF n = 0 THEN {<<>>}
  ELSE Lists(n - 1) \cup {Append(l, c) : l \in {x \in Lists(n - 1) : Len(x) = n - 1},
                                         c \in Candidates}

\* the filtered list of a render: useMemo(() => rankedAlphabeticalFilter(items,
\* query, true), [items, query])
Render(list, query) ==
  [items |-> list, query |-> query, filtered |-> rankedAlphabeticalFilter(list, query, TRUE)]

InitCombo ==
  /\ env = Deployment(Secret)
  /\ reviews = [i \in 1..InitReviews |-> Row(i, "approved", FALSE)]
  /\ ServerIdle /\ ConsoleIdle /\ HooksIdle /\ SelectorIdle /\ NavIdle /\ IndexIdle /\ FlightIdle
  /\ \E list \in Lists(MaxListLen) : combo = Render(list, <<>>)

\* typing in the filter box of the open list: setQuery(e.target.value)
setQuery(text) ==
  /\ text # combo.query
  /\ combo' = Render(combo.items, text)
  /\ UNCHANGED notCombo

TypeQuery == \E text \in Queries : setQuery(text)

NextCombo == TypeQuery

SpecCombo == InitCombo /\ [][NextCombo]_vars

(***************************************************************************)
(* Properties of the ranked filter.                                        *)
(***************************************************************************)
IsPrefixMatch(c, q) == Len(q) <= Len(norm(c)) /\ SubSeq(norm(c), 1, Len(q)) = q

IsSubstringMatch(c, q) == Occurs(norm(c), q) # {}

IsFuzzyMatch(c, q) == levenshtein(q, norm(c)) <= Threshold(q)

\* 0 for a prefix match, 1 for a substring match that is no prefix match, 2
\* for the rest
MatchClass(c, q) ==
  IF IsPrefixMatch(c, q) THEN 0 ELSE IF IsSubstringMatch(c, q) THEN 1 ELSE 2

\* C20: for a non-empty query the filtered list holds all and only the items
\* whose normalized form starts with the normalized query, contains it, or is
\* within Levenshtein distance ceil(len * 0.5) of it, and in it every prefix
\* match stands before every substring-only match, and every substring-only
\* match before every fuzzy-only match.
C20_RankedFilter ==
  combo.query # <<>> =>
    LET q == norm(combo.query) IN
    /\ \A c \in Candidates :
         Count(combo.filtered, c) =
           IF IsPrefixMatch(c, q) \/ IsSubstringMatch(c, q) \/ IsFuzzyMatch(c, q)
           THEN Count(combo.items, c) ELSE 0
    /\ \A i, j \in 1..Len(combo.filtered) :
         i < j => MatchClass(combo.filtered[i], q) <= MatchClass(combo.filtered[j], q)

(***************************************************************************)
(* The navigation target of a resolved triple: goToEstate of               *)
(* components/CascadingSearch.tsx and go of the CascadingSearch that loads *)
(* its data with fetchData (named "CascadingSearch20" here).  The names    *)
(* are sequences of characters; besides the letters the model has a digit, *)
(* the space, the hyphen and the full stop.                                *)
(***************************************************************************)
NavVariants == {"CascadingSearch", "CascadingSearch20"}

\* the characters of [a-z0-9] and of \s in the model
AlphaNum == {"a", "b", "c", "e", "l", "r", "s", "1"}
WhiteSpace == {" "}
Hyphen == "-"

\* .replace(/[^a-z0-9\s-]/g, ""): every other character is removed
KeepSlugChars(str) == SelectSeq(str, LAMBDA c : c \in AlphaNum \cup WhiteSpace \cup {Hyphen})

\* String.prototype.trim
RECURSIVE trimStart(_)
trimStart(str) ==
  IF str # <<>> /\ Head(str) \in WhiteSpace THEN trimStart(Tail(str)) ELSE str

RECURSIVE trimEnd(_)
trimEnd(str) ==
  IF str # <<>> /\ str[Len(str)] \in WhiteSpace
  THEN trimEnd(SubSeq(str, 1, Len(str) - 1)) ELSE str

trim(str) == trimEnd(trimStart(str))

\* .replace(/X+/g, "-") where X is every character outside keep: each maximal
\* run of such characters becomes one hyphen
RECURSIVE SkipRun(_, _)
SkipRun(str, keep) ==
  IF str # <<>> /\ Head(str) \notin keep THEN SkipRun(Tail(str), keep) ELSE str

RECURSIVE HyphenateRuns(_, _)
HyphenateRuns(str, keep) ==
  IF str = <<>> THEN <<>>
  ELSE IF Head(str) \in keep THEN <<Head(str)>> \o HyphenateRuns(Tail(str), keep)
  ELSE <<Hyphen>> \o HyphenateRuns(SkipRun(str, keep), keep)

\* the characters other than white space that can stand in a slug in the making
NotWhiteSpace == AlphaNum \cup {Hyphen}

\* slugify of components/CascadingSearch.tsx
slugify(str) ==
  HyphenateRuns(trim(KeepSlugChars(toLowerCase(StripDiacritics(NFD(str))))), NotWhiteSpace)

\* .replace(/(^-|-$)+/g, ""): the hyphen at the start and the hyphen at the end
StripEndHyphens(str) ==
  LET a == IF str # <<>> /\ Head(str) = Hyphen THEN Tail(str) ELSE str
  IN  IF a # <<>> /\ a[Len(a)] = Hyphen THEN SubSeq(a, 1, Len(a) - 1) ELSE a

\* slugify of the CascadingSearch with fetchData
slugify20(str) == StripEndHyphens(HyphenateRuns(toLowerCase(str), AlphaNum))

Slash == "/"

Path(a, b, c) == <<Slash>> \o a \o <<Slash>> \o b \o <<Slash>> \o c

AllAreas == <<"A", "l", "l", " ", "A", "r", "e", "a", "s">>

\* goToEstate: nothing without a full triple
goToEstate ==
  /\ nav.variant = "CascadingSearch"
  /\ nav.path = Unset
  /\ nav.county # <<>> /\ nav.town # <<>> /\ nav.estate # <<>>
  /\ nav' = [nav EXCEPT !.path = Path(slugify(nav.county), slugify(nav.town), slugify(nav.estate))]
  /\ UNCHANGED notNav

\* go: nothing without county and town; no estate stands for "All Areas"
go ==
  /\ nav.variant = "CascadingSearch20"
  /\ nav.path = Unset
  /\ nav.county # <<>> /\ nav.town # <<>>
  /\ LET e == IF nav.estate # <<>> THEN nav.estate ELSE AllAreas
     IN  nav' = [nav EXCEPT !.path = Path(slugify20(nav.county), slugify20(nav.town), slugify20(e))]
  /\ UNCHANGED notNav

\* the names of the places of the model
PlaceNames ==
  {<<"A", "b">>, <<"á", "b">>, <<"a", ".", "b">>, <<"a", " ", "-", " ", "b">>,
   <<"-", "a">>, <<"a", " ", " ", "1">>, <<"B", "a", " ">>}

InitNav ==
  /\ env = Deployment(Secret)
  /\ reviews = [i \in 1..InitReviews |-> Row(i, "approved", FALSE)]
  /\ ServerIdle /\ ConsoleIdle /\ HooksIdle /\ SelectorIdle /\ ComboIdle /\ IndexIdle /\ FlightIdle
  /\ \E v \in NavVariants, c \in PlaceNames, t \in PlaceNames, e \in PlaceNames \cup {<<>>} :
       nav = [variant |-> v, county |-> c, town |-> t, estate |-> e, path |-> Unset]

NextNav == goToEstate \/ go

SpecNav == InitNav /\ [][NextNav]_vars

(***************************************************************************)
(* Properties of the navigation target.                                    *)
(***************************************************************************)
\* the slug as specified: lower case, no diacritics, every maximal run of
\* non-alphanumeric characters one hyphen, no hyphen at either end
Slug(str) == StripEndHyphens(HyphenateRuns(toLowerCase(StripDiacritics(NFD(str))), AlphaNum))

WellFormedSegment(seg) ==
  /\ \A i \in 1..Len(seg) : seg[i] \in AlphaNum \cup {Hyphen}
  /\ \A i \in 1..Len(seg) - 1 : ~(seg[i] = Hyphen /\ seg[i + 1] = Hyphen)
  /\ seg # <<>> => (seg[1] # Hyphen /\ seg[Len(seg)] # Hyphen)

\* the segments of a path: what follows each slash
RECURSIVE Segments(_)
Segments(path) ==
  IF path = <<>> THEN <<>>
  ELSE LET rest == Tail(path)
           seg == SkipRun(rest, {Slash})
       IN  <<SubSeq(rest, 1, Len(rest) - Len(seg))>> \o Segments(seg)

\* C21: the navigation target of a resolved triple is "/" slug(county) "/"
\* slug(town) "/" slug(estate) with the slug as specified, so every segment
\* is made of a-z, 0-9 and single hyphens and has no hyphen at either end.
C21_NavigationTarget ==
  (nav.path # Unset /\ nav.estate # <<>>) =>
    /\ nav.path = Path(Slug(nav.county), Slug(nav.town), Slug(nav.estate))
    /\ Len(Segments(nav.path)) = 3
    /\ \A k \in 1..Len(Segments(nav.path)) : WellFormedSegment(Segments(nav.path)[k])

(***************************************************************************)
(* The loaders of the Place Index: parseSimpleCSV, parseCsoBUA and         *)
(* mergeData of the home page, handleCSV of components/CascadingSearch.tsx *)
(* and csvToDataShape.  A source is a header and lines, a line the         *)
(* sequence of the texts between its commas; " " is a text of white space. *)
(* A DataShape is a function county -> town -> list of estates.            *)
(***************************************************************************)
MaxLines == 2
MaxMerges == 2

Loaders == {"parseSimpleCSV", "parseCsoBUA", "handleCSV", "csvToDataShape"}

\* parts[i], counting from 1 (0 stands for the index -1 of a column that is
\* not there): undefined where the line has no such cell
Cell(parts, i) == IF i \in 1..Len(parts) THEN parts[i] ELSE Unset

\* splitCSVLine: line.match(/("([^"]|"")*"|[^,]+)/g) yields the cells that
\* are not empty, each then trimmed
splitCSVLine(line) ==
  LET cells == SelectSeq(line, LAMBDA c : c # "")
  IN  [k \in 1..Len(cells) |-> Trim(cells[k])]

\* cols.indexOf(name), counting from 1, 0 when absent
ColumnIndex(cols, name) ==
  IF \E k \in 1..Len(cols) : cols[k] = name
  THEN CHOOSE k \in 1..Len(cols) : cols[k] = name /\ \A j \in 1..(k - 1) : cols[j] # name
  ELSE 0

NoData == <<>>

Includes(list, e) == \E k \in 1..Len(list) : list[k] = e

\* data[county] = data[county] || {}; data[county][town] = data[county][town]
\* || []; if (!data[county][town].includes(estate)) data[county][town].push(estate)
addEstate(data, county, town, estate) ==
  LET ts == IF county \in DOMAIN data THEN data[county] ELSE NoData
      es == IF town \in DOMAIN ts THEN ts[town] ELSE <<>>
  IN  Put(data, county, Put(ts, town, IF Includes(es, estate) THEN es ELSE Append(es, estate)))

\* the loop of parseSimpleCSV over the lines from the k-th on
RECURSIVE parseSimpleLines(_, _, _, _)
parseSimpleLines(cols, lines, k, data) ==
  IF k > Len(lines) THEN data
  ELSE LET parts == splitCSVLine(lines[k])
           county == Trim(Cell(parts, ColumnIndex(cols, "county")))
           town == Trim(Cell(parts, ColumnIndex(cols, "town")))
           estate == OrElse(Trim(Cell(parts, ColumnIndex(cols, "estate"))), "All Areas")
       IN  parseSimpleLines(cols, lines, k + 1,
             IF county = "" \/ town = "" THEN data ELSE addEstate(data, county, town, estate))

parseSimpleCSV(source) == parseSimpleLines(splitCSVLine(source.header), source.lines, 1, NoData)

\* the loop of parseCsoBUA
RECURSIVE parseCsoLines(_, _, _, _)
parseCsoLines(cols, lines, k, data) ==
  IF k > Len(lines) THEN data
  ELSE LET parts == splitCSVLine(lines[k])
           town == Trim(OrElse(Cell(parts, ColumnIndex(cols, "town")), ""))
           county == Trim(OrElse(Cell(parts, ColumnIndex(cols, "county")), ""))
       IN  parseCsoLines(cols, lines, k + 1,
             IF town = "" \/ county = "" THEN data ELSE addEstate(data, county, town, "All Areas"))

\* parseCsoBUA; the column of the names of the urban areas is "town" in the
\* sources of the model
parseCsoBUA(source) ==
  LET cols == splitCSVLine(source.header)
  IN  IF ColumnIndex(cols, "town") = 0 \/ ColumnIndex(cols, "county") = 0 THEN NoData
      ELSE parseCsoLines(cols, source.lines, 1, NoData)

\* the loop of handleCSV and of csvToDataShape: const [countyRaw, townRaw,
\* estateRaw] = line.split(","), tested before they are trimmed
RECURSIVE parseSplitLines(_, _, _)
parseSplitLines(lines, k, data) ==
  IF k > Len(lines) THEN data
  ELSE LET countyRaw == Cell(lines[k], 1)
           townRaw == Cell(lines[k], 2)
           estateRaw == Cell(lines[k], 3)
       IN  parseSplitLines(lines, k + 1,
             IF countyRaw \in {"", Unset} \/ townRaw \in {"", Unset} \/ estateRaw \in {"", Unset}
             THEN data
             ELSE addEstate(data, Trim(countyRaw), Trim(townRaw), Trim(estateRaw)))

\* handleCSV takes every line of the file, the header too
handleCSV(source) == parseSplitLines(<<source.header>> \o source.lines, 1, NoData)

\* csvToDataShape skips the header
csvToDataShape(source) == parseSplitLines(source.lines, 1, NoData)

Load(loader, source) ==
  CASE loader = "parseSimpleCSV" -> parseSimpleCSV(source)
    [] loader = "parseCsoBUA" -> parseCsoBUA(source)
    [] loader = "handleCSV" -> handleCSV(source)
    [] loader = "csvToDataShape" -> csvToDataShape(source)

\* the list with the estates of more it does not include pushed onto it
RECURSIVE pushNew(_, _)
pushNew(list, more) ==
  IF more = <<>> THEN list
  ELSE pushNew(IF Includes(list, Head(more)) THEN list ELSE Append(list, Head(more)), Tail(more))

TownsOf(data, county) == IF county \in DOMAIN data THEN data[county] ELSE NoData

EstatesOf(data, county, town) ==
  IF town \in DOMAIN TownsOf(data, county) THEN data[county][town] ELSE <<>>

\* mergeData pushing every estate of b, included or not
mergeDataPushAll(a, b) ==
  [county \in DOMAIN a \cup DOMAIN b |->
     [town \in DOMAIN TownsOf(a, county) \cup DOMAIN TownsOf(b, county) |->
        EstatesOf(a, county, town) \o EstatesOf(b, county, town)]]

\* mergeData: a copy of a, with the counties, the towns and the estates of b
\* it does not have added
mergeData(a, b) ==
  [county \in DOMAIN a \cup DOMAIN b |->
     [town \in DOMAIN TownsOf(a, county) \cup DOMAIN TownsOf(b, county) |->
        pushNew(EstatesOf(a, county, town), EstatesOf(b, county, town))]]

\* the sources of the model
Headers == {<<"county", "town", "estate">>, <<"county", "town">>}

Lines == {<<c, t, e>> : c \in {"", " ", "Kildare", "Dublin"}, t \in {"", "Newtown"},
                       e \in {"", "Monread"}}

RECURSIVE LinesUpTo(_)
LinesUpTo(n) ==
  IF n = 0 THEN {<<>>}
  ELSE LinesUpTo(n - 1) \cup {Append(l, c) : l \in {x \in LinesUpTo(n - 1) : Len(x) = n - 1},
                                             c \in Lines}

InitIndex ==
  /\ env = Deployment(Secret)
  /\ reviews = [i \in 1..InitReviews |-> Row(i, "approved", FALSE)]
  /\ ServerIdle /\ ConsoleIdle /\ HooksIdle /\ SelectorIdle /\ ComboIdle /\ NavIdle /\ FlightIdle
  /\ \E loader \in Loaders, header \in Headers, lines \in LinesUpTo(MaxLines) :
       index = [loader |-> loader, source |-> [header |-> header, lines |-> lines],
                data |-> NoData, loaded |-> FALSE, merges |-> 0]

\* the source is loaded
load ==
  /\ ~index.loaded
  /\ index' = [index EXCEPT !.data = Load(index.loader, index.source), !.loaded = TRUE]
  /\ UNCHANGED notIndex

\* the source is loaded once more and merged into the index
merge ==
  /\ index.loaded
  /\ index.merges < MaxMerges
  /\ index' = [index EXCEPT !.data = mergeData(index.data, Load(index.loader, index.source)),
                            !.merges = @ + 1]
  /\ UNCHANGED notIndex

NextIndex == load \/ merge

SpecIndex == InitIndex /\ [][NextIndex]_vars

(***************************************************************************)
(* Properties of the loaders.                                              *)
(***************************************************************************)
NoDuplicates(list) == \A i, j \in 1..Len(list) : list[i] = list[j] => i = j

\* C22: merging a Place Index with the index of the same source loaded again
\* gives the index of the source loaded once, by value: the same counties,
\* the same towns under each, the same list of estates, without duplicates,
\* under each town.
C22_MergeIdempotent ==
  index.merges > 0 =>
    /\ index.data = Load(index.loader, index.source)
    /\ \A c \in DOMAIN index.data : \A t \in DOMAIN index.data[c] :
         NoDuplicates(index.data[c][t])

\* C22 witness: a source with an estate under a town, once loaded and merged
\* with itself
C22_Witness ==
  /\ index.merges > 0
  /\ \E c \in DOMAIN index.data : \E t \in DOMAIN index.data[c] : Len(index.data[c][t]) > 0

\* C23: in every Place Index the loaders and mergeData produce, a town name
\* is a key under one county only.
C23_TownUnderOneCounty ==
  index.loaded =>
    \A c1, c2 \in DOMAIN index.data :
      c1 # c2 => DOMAIN index.data[c1] \cap DOMAIN index.data[c2] = {}

\* the loaders of county,town,estate sources
TripleLoaders == {"parseSimpleCSV", "handleCSV", "csvToDataShape"}

\* what a line of the source says: its county, its town and its estate, "All
\* Areas" standing for no estate
Said(line) ==
  [county |-> Trim(Cell(line, 1)), town |-> Trim(Cell(line, 2)),
   estate |-> OrElse(Trim(Cell(line, 3)), "All Areas")]

Complete(line) == Said(line).county # "" /\ Said(line).town # ""

\* C24: loading a county,town,estate source drops the rows that miss their
\* county or their town, so that every estate of the index (the header apart)
\* is the estate of a row that has both, and keeps every row that has both:
\* with no estate value the row gives its town the estate "All Areas".
C24_RowsKeptOrDropped ==
  (index.loaded /\ index.loader \in TripleLoaders) =>
    LET lines == index.source.lines IN
    /\ \A k \in 1..Len(lines) :
         Complete(lines[k]) =>
           Includes(EstatesOf(index.data, Said(lines[k]).county, Said(lines[k]).town),
                    Said(lines[k]).estate)
    /\ \A c \in DOMAIN index.data \ {"county"} : \A t \in DOMAIN index.data[c] :
         \A j \in 1..Len(index.data[c][t]) :
           \E k \in 1..Len(lines) :
             /\ Complete(lines[k])
             /\ Said(lines[k]) = [county |-> c, town |-> t, estate |-> index.data[c][t][j]]

(***************************************************************************)
(* Properties of the review store under moderation.                        *)
(***************************************************************************)
\* C25: in every reachable state of the review store the status of every
\* review is one of pending, approved, rejected: a submission writes pending
\* and every moderation endpoint writes approved or rejected.
C25_StatusDomain == \A id \in Ids(reviews) : reviews[id].status \in Statuses

(***************************************************************************)
(* The console with several actions in flight: the list is loaded, then    *)
(* actions are issued without waiting for the responses, which arrive in   *)
(* any order.                                                              *)
(***************************************************************************)
OverlapLoad == acts = <<>> /\ loadClick

OverlapLoaded == \E okResp \in BOOLEAN, rows \in {FullLoad, <<>>} : loadResolve(okResp, rows)

OverlapClick ==
  /\ ~page.loading
  /\ Len(acts) < MaxActs
  /\ \E id \in 1..ConsoleRows, action \in {"approve", "reject", "delete"} : actClick(id, action, TRUE)

OverlapResolve == \E k \in InFlight, okResp \in BOOLEAN : actResolve(k, okResp)

NextConsoleOverlap == OverlapLoad \/ OverlapLoaded \/ OverlapClick \/ OverlapResolve

SpecConsoleOverlap == InitConsole /\ [][NextConsoleOverlap]_vars

Succeeded == {acts[k].id : k \in {j \in 1..Len(acts) : acts[j].state = "ok"}}

\* C26: with several actions of the console in flight at once and their
\* responses arriving in any order, once all have resolved the local list is
\* the list as loaded without exactly the records whose action succeeded.
C26_OverlappingActions ==
  (acts # <<>> /\ InFlight = {} /\ ~page.loading) =>
    page.reviews = SelectSeq(FullLoad, LAMBDA id : id \notin Succeeded)

(***************************************************************************)
(* Validity of the selections against the Place Index.                     *)
(***************************************************************************)
IndexCounties == {r.county : r \in selector.data}
IndexTowns(c) == {r.town : r \in {x \in selector.data : x.county = c}}
IndexEstates(c, t) == {r.estate : r \in {x \in selector.data : x.county = c /\ x.town = t}}

\* C27: in every reachable state of the cascading selector a selected county
\* is a county of the current Place Index, a selected town a town of that
\* county and a selected estate an estate of that town, also after free text
\* was typed, after the index was replaced and while the towns of a newly
\* selected county are loading.
C27_SelectionInIndex ==
  /\ selector.county # Unset => selector.county \in IndexCounties
  /\ selector.town # Unset => selector.town \in IndexTowns(selector.county)
  /\ selector.estate # Unset => selector.estate \in IndexEstates(selector.county, selector.town)

(***************************************************************************)
(* POST /api/reviews handled for several requests at once.  The handler of *)
(* pages/api/reviews.ts awaits the count of the log rows, siteverify, the  *)
(* insert of the log row and the insert of the review: between two awaits  *)
(* the server runs the handlers of the other requests.                     *)
(***************************************************************************)
MaxFlights == 2     \* requests the server handles at once
MaxCeiling == 1     \* largest RATE_LIMIT_PER_HOUR of a deployment
MaxElapses == 1     \* hours that pass while they are handled

\* what a step of the handler leaves alone besides the tables it writes
flightFrame == <<env, ipHits, now, mailHits, consoleVars, hookVars, selectorVars, comboVars,
                 navVars, indexVars>>

\* count of a request whose count query has not answered
NoCount == -1

\* the handler of request k moves on to its next await
proceed(k, pc) == inflight' = [inflight EXCEPT ![k].pc = pc]

\* the response to request k, as the history records it
answer(k, code, body, writes) ==
  /\ submitted' = submitted + 1
  /\ last' = Resp("reviews", inflight[k].req, code, body, NoRows,
                  IF RATE_LIMIT_SECRET # "" THEN 1 ELSE 0, writes)

\* res.status(code).json(body) of request k
respond(k, code, body, writes) ==
  /\ inflight' = [inflight EXCEPT ![k].pc = "done", ![k].code = code]
  /\ answer(k, code, body, writes)

\* the request arrives: ip, ipHash and sinceIso are computed
receive(raw) ==
  /\ Len(inflight) < MaxFlights
  /\ inflight' = Append(inflight, [pc |-> IF raw.method # "POST" THEN "done" ELSE "count",
                                   req |-> raw, ipHash |-> hashIp(raw.ip),
                                   since |-> now - HourMs, count |-> NoCount,
                                   code |-> IF raw.method # "POST" THEN 405 ELSE 0])
  /\ UNCHANGED notFlight

\* the count query answers with the rows of the address in the window
counted(k) ==
  [inflight EXCEPT ![k].count = LogCount(inflight[k].ipHash, inflight[k].since)]

\* a rate-limit check that lets the request at the ceiling through
countRowsAboveOnly(k, countOk) ==
  /\ inflight[k].pc = "count"
  /\ UNCHANGED <<flightFrame, reviews, nextId, submission_log, emails, accepted>>
  /\ IF RATE_LIMIT_SECRET = "" THEN
       proceed(k, "captcha") /\ UNCHANGED <<submitted, last>>
     ELSE IF ~countOk THEN
       respond(k, 500, [error |-> "rate-limit-check-failed"], 0)
     ELSE IF counted(k)[k].count > RATE_LIMIT_PER_HOUR THEN
       /\ inflight' = [counted(k) EXCEPT ![k].pc = "done", ![k].code = 429]
       /\ answer(k, 429, [error |-> "Too many submissions. Please try later."], 0)
     ELSE
       /\ inflight' = [counted(k) EXCEPT ![k].pc = "captcha"]
       /\ UNCHANGED <<submitted, last>>

\* 1) Rate limit: the count of the log rows of the address comes back
countRows(k, countOk) ==
  /\ inflight[k].pc = "count"
  /\ UNCHANGED <<flightFrame, reviews, nextId, submission_log, emails, accepted>>
  /\ IF RATE_LIMIT_SECRET = "" THEN
       proceed(k, "captcha") /\ UNCHANGED <<submitted, last>>
     ELSE IF ~countOk THEN
       respond(k, 500, [error |-> "rate-limit-check-failed"], 0)
     ELSE IF counted(k)[k].count >= RATE_LIMIT_PER_HOUR THEN
       /\ inflight' = [counted(k) EXCEPT ![k].pc = "done", ![k].code = 429]
       /\ answer(k, 429, [error |-> "Too many submissions. Please try later."], 0)
     ELSE
       /\ inflight' = [counted(k) EXCEPT ![k].pc = "captcha"]
       /\ UNCHANGED <<submitted, last>>

\* 2) hCaptcha: siteverify answers
verifyCaptcha(k, verifyUp) ==
  /\ inflight[k].pc = "captcha"
  /\ UNCHANGED <<flightFrame, reviews, nextId, submission_log, emails, accepted>>
  /\ IF ~verifyHCaptcha(inflight[k].req.hcaptchaToken, verifyUp) THEN
       respond(k, 400, [error |-> "captcha-failed"], 0)
     ELSE
       proceed(k, "log") /\ UNCHANGED <<submitted, last>>

\* 3) Insert log row: an error is logged and the handler goes on
insertLogRow(k, logOk) ==
  /\ inflight[k].pc = "log"
  /\ UNCHANGED <<flightFrame, reviews, nextId, emails, accepted, submitted, last>>
  /\ submission_log' = IF RATE_LIMIT_SECRET # "" /\ logOk
                         THEN Append(submission_log,
                                     [ip_hash |-> inflight[k].ipHash, inserted_at |-> now])
                         ELSE submission_log
  /\ proceed(k, "insert")

\* 4) Insert review (pending), 5) optional email alert, the answer
insertReview(k, insOk, emailOk) ==
  LET raw == inflight[k].req IN
  /\ inflight[k].pc = "insert"
  /\ UNCHANGED <<flightFrame, submission_log>>
  /\ IF ~insOk THEN
       /\ UNCHANGED <<reviews, nextId, emails, accepted>>
       /\ respond(k, 500, [error |-> "insert-failed"], 1)
     ELSE
       /\ reviews' = Insert(reviews, nextId,
                            [county |-> raw.county, region |-> raw.region, estate |-> raw.estate,
                             rating |-> ToNumber(raw.rating), title |-> raw.title,
                             status |-> "pending"])
       /\ nextId' = nextId + 1
       /\ emails' = IF env.RESEND /\ emailOk THEN emails + 1 ELSE emails
       /\ accepted' = Accept("reviews", raw.ip)
       /\ respond(k, 200, [ok |-> TRUE, status |-> "pending"], 1)

\* the clock moves while requests are being handled
elapse(d) ==
  /\ now + d <= MaxElapses * HourMs
  /\ Tick(d)
  /\ UNCHANGED otherVars

Deployments == {[FullDeployment EXCEPT !.RATE_LIMIT_PER_HOUR = n] : n \in 1..MaxCeiling}

InitFlights ==
  /\ env \in Deployments
  /\ reviews = [i \in 1..InitReviews |-> Row(i, "approved", FALSE)]
  /\ InitServer

Receive == \E raw \in {Base, [Base EXCEPT !.hcaptchaToken = "bad"]} : receive(raw)
CountRows == \E k \in 1..Len(inflight), countOk \in BOOLEAN : countRows(k, countOk)
VerifyCaptcha == \E k \in 1..Len(inflight) : verifyCaptcha(k, TRUE)
InsertLogRow == \E k \in 1..Len(inflight), logOk \in BOOLEAN : insertLogRow(k, logOk)
InsertReview == \E k \in 1..Len(inflight), insOk \in BOOLEAN : insertReview(k, insOk, TRUE)
Elapse == elapse(HourMs)

NextFlights == Receive \/ CountRows \/ VerifyCaptcha \/ InsertLogRow \/ InsertReview \/ Elapse

SpecFlights == InitFlights /\ [][NextFlights]_vars

\* the original statement of C28: with the log-backed limit configured at
\* ceiling N, however the handlers of concurrent submissions from one address
\* interleave, the reviews accepted from that address in the trailing 60
\* minutes are at most N.
C28_CeilingUnderConcurrency ==
  RATE_LIMIT_SECRET # "" =>
    \A k \in 1..Len(accepted) :
      WindowCount("reviews", accepted[k].ip) <= RATE_LIMIT_PER_HOUR

\* C28, amended: with the log-backed limit configured at ceiling N, every
\* submission that passes the rate-limit check, and so every accepted one, read
\* fewer than N log rows of its address in its trailing 60 minutes; requests
\* that read the count before the others appended their rows are all accepted.
C28_AcceptedReadBelowCeiling ==
  RATE_LIMIT_SECRET # "" =>
    \A k \in 1..Len(inflight) :
      inflight[k].pc \in {"captcha", "log", "insert"} \/ inflight[k].code \in {200, 400}
        => /\ inflight[k].count # NoCount
           /\ inflight[k].count < RATE_LIMIT_PER_HOUR

\* C28: more reviews than the ceiling were accepted in one hour although every
\* log row was written: their handlers counted before the rows were appended
C28_Witness ==
  /\ RATE_LIMIT_SECRET # ""
  /\ Len(submission_log) >= Len(accepted)
  /\ \E k \in 1..Len(inflight) :
       /\ inflight[k].code = 200
       /\ WindowCount("reviews", inflight[k].req.ip) > RATE_LIMIT_PER_HOUR

\* C30: with the log-backed limit configured, a row is appended to the
\* submission log only by a submission that ends with a stored review; a
\* request answered 429, 400 or 500 leaves the log as it was.
C30_LogOnlyOnSuccess ==
  [][RATE_LIMIT_SECRET # "" /\ submitted' = submitted + 1 /\ last'.handler = "reviews"
       => \/ submission_log' = submission_log
          \/ last'.code = 200 /\ nextId' = nextId + 1]_vars

\* a fetch for the estate now selected has not answered yet
Outstanding ==
  \E k \in 1..Len(fetches) :
    fetches[k].state = "flight" /\ ~Cancelled(fetches[k]) /\ fetches[k].estate = hook.estateId

\* C29: in the review lists that carry a cancelled flag, loading is false
\* whenever no fetch for the current selection is outstanding; in particular,
\* when the selection is cleared while a fetch is in flight, loading is false
\* once that fetch has answered.
C29_LoadingNotStuck == ~Outstanding => ~hook.loading

====
